---- MODULE Spec2Model ----
(***************************************************************************)
(* Member pallet (pallets/member/src/lib.rs): the member registry, its     *)
(* four index maps, the six dispatchables and the validation helpers.      *)
(*                                                                         *)
(* Byte strings are sequences of characters; a character is a one-letter   *)
(* string, or one of the tokens below standing for a multi-byte UTF-8      *)
(* character or for a byte that is no valid UTF-8.  H256 member ids are    *)
(* the BlakeTwo256 preimages <<account, timestamp>> (the hash is taken to  *)
(* be collision free); the hashes of documents are strings.                *)
(*                                                                         *)
(* The variables are the storage of the pallet, the block number and, for  *)
(* the validation helpers taken on their own, the byte string under        *)
(* validation with the helper's verdict.  A                                *)
(* dispatchable is an operator from the storage, the origin and the        *)
(* arguments to its result, the storage it has written and the events it   *)
(* has deposited; the claims about one call are stated over that outcome   *)
(* in every reachable state.                                               *)
(***************************************************************************)
EXTENDS Integers, Sequences, FiniteSets, TLC

VARIABLES Members, AccountToMember, MemberByEmail, MemberCount, MemberByIndex,
          block_number, validation

vars == <<Members, AccountToMember, MemberByEmail, MemberCount, MemberByIndex,
          block_number, validation>>

(***************************************************************************)
(* Bounds of the model and constants of the program.                       *)
(***************************************************************************)
\* the chain is followed up to this block
MaxBlock == 2

MaxFirstNameLength == 50
MaxLastNameLength == 50
MaxEmailLength == 100
MaxAddressLength == 200
MaxMobileLength == 20
MaxDateLength == 10
\* the largest value of the u32 counter MemberCount, scaled down (u32::MAX is
\* beyond the integers of the model checker); above the number of accounts
MaxCount == 3

(***************************************************************************)
(* Characters and byte strings.                                            *)
(***************************************************************************)
Digits == {"0", "1", "2", "3", "4", "5", "6", "7", "8", "9"}
Letters == {"a", "b", "c", "d", "e", "f", "g", "h", "i", "j", "k", "l", "m",
            "n", "o", "p", "q", "r", "s", "t", "u", "v", "w", "x", "y", "z",
            "A", "B", "C", "X", "Y", "Z"}
\* a byte that cannot occur in UTF-8
BadByte == "0xFF"
\* characters encoded in two, three and four bytes
Char2 == "U+00E9"
Char3 == "U+20AC"
Char4 == "U+1D11E"

\* char::len_utf8
Utf8Len(c) == CASE c = Char2 -> 2 [] c = Char3 -> 3 [] c = Char4 -> 4 [] OTHER -> 1

\* Vec<u8>::len / str::len: the length in bytes, the sum of Utf8Len over s
ByteLen(s) ==
    LET wide == {i \in 1..Len(s) : s[i] \in {Char2, Char3, Char4}}
    IN  Len(s) + Cardinality({i \in wide : Utf8Len(s[i]) = 2})
               + 2 * Cardinality({i \in wide : Utf8Len(s[i]) = 3})
               + 3 * Cardinality({i \in wide : Utf8Len(s[i]) = 4})

\* core::str::from_utf8(..).is_ok()
IsUtf8(s) == \A i \in 1..Len(s) : s[i] # BadByte

\* char::is_ascii_digit, char::is_ascii_alphanumeric
is_ascii_digit(c) == c \in Digits
is_ascii_alphanumeric(c) == c \in Digits \/ c \in Letters

\* n copies of the character c
Rep(c, n) == [i \in 1..n |-> c]

\* str::matches(c).count()
CountOf(s, c) == Cardinality({i \in 1..Len(s) : s[i] = c})

\* position of the first c in s (0 when there is none)
IndexOf(s, c) == IF \E i \in 1..Len(s) : s[i] = c
                 THEN CHOOSE i \in 1..Len(s) : s[i] = c /\ \A j \in 1..(i-1) : s[j] # c
                 ELSE 0

\* str::contains("..")
HasDoubleDot(s) == \E i \in 1..(Len(s) - 1) : s[i] = "." /\ s[i+1] = "."

DigitVal(c) == CASE c = "0" -> 0 [] c = "1" -> 1 [] c = "2" -> 2 [] c = "3" -> 3
                 [] c = "4" -> 4 [] c = "5" -> 5 [] c = "6" -> 6 [] c = "7" -> 7
                 [] c = "8" -> 8 [] c = "9" -> 9

RECURSIVE ParseU32(_)
\* str::parse::<u32> of a string of ASCII digits
ParseU32(s) == IF s = <<>> THEN 0
               ELSE ParseU32(SubSeq(s, 1, Len(s) - 1)) * 10 + DigitVal(s[Len(s)])

(***************************************************************************)
(* Validation helpers.  Each returns "Ok" or the name of the error; the    *)
(* outcome "Panic" is an index out of bounds.                              *)
(***************************************************************************)
\* validate_email without the check of consecutive dots
validate_email_AllowsDoubleDot(email) ==
    IF ~IsUtf8(email) THEN "InvalidEmailFormat"
    ELSE IF CountOf(email, "@") # 1 THEN "InvalidEmailFormat"
    ELSE LET at == IndexOf(email, "@")
             local == SubSeq(email, 1, at - 1)
             domain == SubSeq(email, at + 1, Len(email))
         IN  IF ~(local # <<>> /\ ByteLen(local) <= 64) THEN "InvalidEmailFormat"
             ELSE IF ~(local[1] # "." /\ local[Len(local)] # ".") THEN "InvalidEmailFormat"
             ELSE IF ~(domain # <<>> /\ ByteLen(domain) <= 253) THEN "InvalidEmailFormat"
             ELSE IF CountOf(domain, ".") = 0 THEN "InvalidEmailFormat"
             ELSE IF ~(domain[1] # "." /\ domain[Len(domain)] # ".") THEN "InvalidEmailFormat"
             ELSE IF ~(domain[1] # "-" /\ domain[Len(domain)] # "-") THEN "InvalidEmailFormat"
             ELSE IF \E i \in 1..Len(local) :
                        ~(is_ascii_alphanumeric(local[i]) \/ local[i] \in {".", "_", "-", "+"})
                  THEN "InvalidEmailFormat"
             ELSE IF \E i \in 1..Len(domain) :
                        ~(is_ascii_alphanumeric(domain[i]) \/ domain[i] \in {".", "-"})
                  THEN "InvalidEmailFormat"
             ELSE "Ok"

validate_email(email) ==
    IF ~IsUtf8(email) THEN "InvalidEmailFormat"
    ELSE IF CountOf(email, "@") # 1 THEN "InvalidEmailFormat"
    ELSE LET at == IndexOf(email, "@")
             local == SubSeq(email, 1, at - 1)
             domain == SubSeq(email, at + 1, Len(email))
         IN  IF ~(local # <<>> /\ ByteLen(local) <= 64) THEN "InvalidEmailFormat"
             ELSE IF ~(local[1] # "." /\ local[Len(local)] # ".") THEN "InvalidEmailFormat"
             ELSE IF HasDoubleDot(local) THEN "InvalidEmailFormat"
             ELSE IF ~(domain # <<>> /\ ByteLen(domain) <= 253) THEN "InvalidEmailFormat"
             ELSE IF CountOf(domain, ".") = 0 THEN "InvalidEmailFormat"
             ELSE IF ~(domain[1] # "." /\ domain[Len(domain)] # ".") THEN "InvalidEmailFormat"
             ELSE IF ~(domain[1] # "-" /\ domain[Len(domain)] # "-") THEN "InvalidEmailFormat"
             ELSE IF \E i \in 1..Len(local) :
                        ~(is_ascii_alphanumeric(local[i]) \/ local[i] \in {".", "_", "-", "+"})
                  THEN "InvalidEmailFormat"
             ELSE IF \E i \in 1..Len(domain) :
                        ~(is_ascii_alphanumeric(domain[i]) \/ domain[i] \in {".", "-"})
                  THEN "InvalidEmailFormat"
             ELSE "Ok"

\* validate_mobile that takes 6 digits
validate_mobile_SixDigits(mobile) ==
    IF ~IsUtf8(mobile) THEN "InvalidMobileFormat"
    ELSE LET number_part == IF mobile # <<>> /\ mobile[1] = "+" THEN Tail(mobile) ELSE mobile
         IN  IF ~(ByteLen(number_part) >= 6 /\ ByteLen(number_part) <= 15)
             THEN "InvalidMobileFormat"
             ELSE IF \E i \in 1..Len(number_part) : ~is_ascii_digit(number_part[i])
             THEN "InvalidMobileFormat"
             ELSE "Ok"

validate_mobile(mobile) ==
    IF ~IsUtf8(mobile) THEN "InvalidMobileFormat"
    ELSE LET number_part == IF mobile # <<>> /\ mobile[1] = "+" THEN Tail(mobile) ELSE mobile
         IN  IF ~(ByteLen(number_part) >= 7 /\ ByteLen(number_part) <= 15)
             THEN "InvalidMobileFormat"
             ELSE IF \E i \in 1..Len(number_part) : ~is_ascii_digit(number_part[i])
             THEN "InvalidMobileFormat"
             ELSE "Ok"

\* chars[i] of the source (0-based) is date[i+1]; reading past the last
\* character panics.  The checks are made in the order of the source.
validate_date(date) ==
    IF ~IsUtf8(date) THEN "InvalidDateFormat"
    ELSE IF ByteLen(date) # 10 THEN "InvalidDateFormat"
    ELSE IF Len(date) < 5 THEN "Panic"
    ELSE IF date[5] # "-" THEN "InvalidDateFormat"
    ELSE IF Len(date) < 8 THEN "Panic"
    ELSE IF date[8] # "-" THEN "InvalidDateFormat"
    ELSE IF \E i \in 1..4 : ~is_ascii_digit(date[i]) THEN "InvalidDateFormat"
    ELSE IF \E i \in 6..7 : ~is_ascii_digit(date[i]) THEN "InvalidDateFormat"
    ELSE IF Len(date) < 9 THEN "Panic"
    ELSE IF ~is_ascii_digit(date[9]) THEN "InvalidDateFormat"
    ELSE IF Len(date) < 10 THEN "Panic"
    ELSE IF ~is_ascii_digit(date[10]) THEN "InvalidDateFormat"
    ELSE LET year == ParseU32(SubSeq(date, 1, 4))
             month == ParseU32(SubSeq(date, 6, 7))
             day == ParseU32(SubSeq(date, 9, 10))
         IN  IF ~(year >= 1900 /\ year <= 2100) THEN "InvalidDateFormat"
             ELSE IF ~(month >= 1 /\ month <= 12) THEN "InvalidDateFormat"
             ELSE IF ~(day >= 1 /\ day <= 31) THEN "InvalidDateFormat"
             ELSE "Ok"

\* Vec<u8>::try_into::<BoundedVec<u8, bound>>().is_ok()
FitsBound(v, bound) == ByteLen(v) <= bound

(***************************************************************************)
(* Types.                                                                  *)
(***************************************************************************)
KycStatus == {"Unapproved", "Approved", "Rejected"}
MemberType == {"UniversityStudent", "SchoolStudent", "Professional", "General"}

\* Option<T>
None == <<>>
Some(x) == <<x>>

\* origins of a call: frame_system::RawOrigin
Root == <<"Root">>
Signed(who) == <<"Signed", who>>

\* storage maps: StorageMap::insert, remove, contains_key
Insert(m, k, v) == [x \in DOMAIN m \cup {k} |-> IF x = k THEN v ELSE m[x]]
Remove(m, k) == [x \in DOMAIN m \ {k} |-> m[x]]
contains_key(m, k) == k \in DOMAIN m
EmptyMap == [x \in {} |-> None]

\* the pallet's storage, as one value
Storage == [Members |-> Members, AccountToMember |-> AccountToMember,
            MemberByEmail |-> MemberByEmail, MemberCount |-> MemberCount,
            MemberByIndex |-> MemberByIndex]

\* what the body of a dispatchable leaves behind: its result, the storage
\* as written so far, the events deposited so far
Outcome(res, st, ev) == [res |-> res, st |-> st, ev |-> ev]

\* saturating_add as it would be if the addition wrapped around
wrapping_add(a, b) == (a + b) % (MaxCount + 1)

\* u32::saturating_add
saturating_add(a, b) == IF a + b > MaxCount THEN MaxCount ELSE a + b

\* Pallet::total_members
total_members(S) == S.MemberCount

\* generate_member_uuid as it would be if only the timestamp were hashed
generate_member_uuid_TimeOnly(account, timestamp) == <<"any", timestamp>>

\* BlakeTwo256 over account.encode() ++ timestamp.to_le_bytes()
generate_member_uuid(account, timestamp) == <<account, timestamp>>

\* frame_system block_number().saturated_into::<u64>()
current_timestamp == block_number

ensure_signed(origin) == origin[1] = "Signed"
ensure_root(origin) == origin[1] = "Root"

(***************************************************************************)
(* register_member                                                         *)
(***************************************************************************)
\* register_member as it would be without the check of the caller's profile
register_member_Twice(S, origin, a) ==
    IF ~ensure_signed(origin) THEN Outcome("BadOrigin", S, <<>>)
    ELSE LET who == origin[2] IN
    IF validate_email(a.email) # "Ok" THEN Outcome(validate_email(a.email), S, <<>>)
    ELSE IF validate_mobile(a.mobile) # "Ok" THEN Outcome(validate_mobile(a.mobile), S, <<>>)
    ELSE IF validate_date(a.date_of_birth) # "Ok"
         THEN Outcome(validate_date(a.date_of_birth), S, <<>>)
    ELSE IF ~FitsBound(a.first_name, MaxFirstNameLength) THEN Outcome("InvalidMemberData", S, <<>>)
    ELSE IF ~FitsBound(a.last_name, MaxLastNameLength) THEN Outcome("InvalidMemberData", S, <<>>)
    ELSE IF ~FitsBound(a.date_of_birth, MaxDateLength) THEN Outcome("InvalidDateFormat", S, <<>>)
    ELSE IF ~FitsBound(a.email, MaxEmailLength) THEN Outcome("InvalidMemberData", S, <<>>)
    ELSE IF ~FitsBound(a.address, MaxAddressLength) THEN Outcome("InvalidMemberData", S, <<>>)
    ELSE IF ~FitsBound(a.mobile, MaxMobileLength) THEN Outcome("InvalidMemberData", S, <<>>)
    ELSE IF contains_key(S.MemberByEmail, a.email) THEN Outcome("EmailAlreadyExists", S, <<>>)
    ELSE LET current_time == current_timestamp
             member_id == generate_member_uuid(who, current_time)
             member == [member_id |-> member_id,
                        member_type |-> a.member_type,
                        first_name |-> a.first_name,
                        last_name |-> a.last_name,
                        date_of_birth |-> a.date_of_birth,
                        email |-> a.email,
                        address |-> a.address,
                        mobile |-> a.mobile,
                        kyc_status |-> "Unapproved",
                        photo_hash |-> None,
                        kyc_hash |-> None,
                        created_at |-> current_time,
                        updated_at |-> current_time,
                        created_by |-> who]
             member_index == S.MemberCount
         IN  Outcome("Ok",
                     [Members |-> Insert(S.Members, member_id, member),
                      AccountToMember |-> Insert(S.AccountToMember, who, member_id),
                      MemberByEmail |-> Insert(S.MemberByEmail, a.email, member_id),
                      MemberByIndex |-> Insert(S.MemberByIndex, member_index, member_id),
                      MemberCount |-> saturating_add(member_index, 1)],
                     <<[event |-> "MemberRegistered", member_id |-> member_id,
                        account |-> who, email |-> a.email]>>)

\* register_member as it would be without the check of the email index
register_member_SharedEmail(S, origin, a) ==
    IF ~ensure_signed(origin) THEN Outcome("BadOrigin", S, <<>>)
    ELSE LET who == origin[2] IN
    IF contains_key(S.AccountToMember, who) THEN Outcome("MemberAlreadyExists", S, <<>>)
    ELSE IF validate_email(a.email) # "Ok" THEN Outcome(validate_email(a.email), S, <<>>)
    ELSE IF validate_mobile(a.mobile) # "Ok" THEN Outcome(validate_mobile(a.mobile), S, <<>>)
    ELSE IF validate_date(a.date_of_birth) # "Ok"
         THEN Outcome(validate_date(a.date_of_birth), S, <<>>)
    ELSE IF ~FitsBound(a.first_name, MaxFirstNameLength) THEN Outcome("InvalidMemberData", S, <<>>)
    ELSE IF ~FitsBound(a.last_name, MaxLastNameLength) THEN Outcome("InvalidMemberData", S, <<>>)
    ELSE IF ~FitsBound(a.date_of_birth, MaxDateLength) THEN Outcome("InvalidDateFormat", S, <<>>)
    ELSE IF ~FitsBound(a.email, MaxEmailLength) THEN Outcome("InvalidMemberData", S, <<>>)
    ELSE IF ~FitsBound(a.address, MaxAddressLength) THEN Outcome("InvalidMemberData", S, <<>>)
    ELSE IF ~FitsBound(a.mobile, MaxMobileLength) THEN Outcome("InvalidMemberData", S, <<>>)
    ELSE LET current_time == current_timestamp
             member_id == generate_member_uuid(who, current_time)
             member == [member_id |-> member_id,
                        member_type |-> a.member_type,
                        first_name |-> a.first_name,
                        last_name |-> a.last_name,
                        date_of_birth |-> a.date_of_birth,
                        email |-> a.email,
                        address |-> a.address,
                        mobile |-> a.mobile,
                        kyc_status |-> "Unapproved",
                        photo_hash |-> None,
                        kyc_hash |-> None,
                        created_at |-> current_time,
                        updated_at |-> current_time,
                        created_by |-> who]
             member_index == S.MemberCount
         IN  Outcome("Ok",
                     [Members |-> Insert(S.Members, member_id, member),
                      AccountToMember |-> Insert(S.AccountToMember, who, member_id),
                      MemberByEmail |-> Insert(S.MemberByEmail, a.email, member_id),
                      MemberByIndex |-> Insert(S.MemberByIndex, member_index, member_id),
                      MemberCount |-> saturating_add(member_index, 1)],
                     <<[event |-> "MemberRegistered", member_id |-> member_id,
                        account |-> who, email |-> a.email]>>)

\* register_member as it would be if the incremented count were not stored
register_member_CountNotStored(S, origin, a) ==
    IF ~ensure_signed(origin) THEN Outcome("BadOrigin", S, <<>>)
    ELSE LET who == origin[2] IN
    IF contains_key(S.AccountToMember, who) THEN Outcome("MemberAlreadyExists", S, <<>>)
    ELSE IF validate_email(a.email) # "Ok" THEN Outcome(validate_email(a.email), S, <<>>)
    ELSE IF validate_mobile(a.mobile) # "Ok" THEN Outcome(validate_mobile(a.mobile), S, <<>>)
    ELSE IF validate_date(a.date_of_birth) # "Ok"
         THEN Outcome(validate_date(a.date_of_birth), S, <<>>)
    ELSE IF ~FitsBound(a.first_name, MaxFirstNameLength) THEN Outcome("InvalidMemberData", S, <<>>)
    ELSE IF ~FitsBound(a.last_name, MaxLastNameLength) THEN Outcome("InvalidMemberData", S, <<>>)
    ELSE IF ~FitsBound(a.date_of_birth, MaxDateLength) THEN Outcome("InvalidDateFormat", S, <<>>)
    ELSE IF ~FitsBound(a.email, MaxEmailLength) THEN Outcome("InvalidMemberData", S, <<>>)
    ELSE IF ~FitsBound(a.address, MaxAddressLength) THEN Outcome("InvalidMemberData", S, <<>>)
    ELSE IF ~FitsBound(a.mobile, MaxMobileLength) THEN Outcome("InvalidMemberData", S, <<>>)
    ELSE IF contains_key(S.MemberByEmail, a.email) THEN Outcome("EmailAlreadyExists", S, <<>>)
    ELSE LET current_time == current_timestamp
             member_id == generate_member_uuid(who, current_time)
             member == [member_id |-> member_id,
                        member_type |-> a.member_type,
                        first_name |-> a.first_name,
                        last_name |-> a.last_name,
                        date_of_birth |-> a.date_of_birth,
                        email |-> a.email,
                        address |-> a.address,
                        mobile |-> a.mobile,
                        kyc_status |-> "Unapproved",
                        photo_hash |-> None,
                        kyc_hash |-> None,
                        created_at |-> current_time,
                        updated_at |-> current_time,
                        created_by |-> who]
             member_index == S.MemberCount
         IN  Outcome("Ok",
                     [Members |-> Insert(S.Members, member_id, member),
                      AccountToMember |-> Insert(S.AccountToMember, who, member_id),
                      MemberByEmail |-> Insert(S.MemberByEmail, a.email, member_id),
                      MemberByIndex |-> Insert(S.MemberByIndex, member_index, member_id),
                      MemberCount |-> member_index],
                     <<[event |-> "MemberRegistered", member_id |-> member_id,
                        account |-> who, email |-> a.email]>>)

\* register_member as it would be if the email entered the member_id
register_member_IdFromEmail(S, origin, a) ==
    IF ~ensure_signed(origin) THEN Outcome("BadOrigin", S, <<>>)
    ELSE LET who == origin[2] IN
    IF contains_key(S.AccountToMember, who) THEN Outcome("MemberAlreadyExists", S, <<>>)
    ELSE IF validate_email(a.email) # "Ok" THEN Outcome(validate_email(a.email), S, <<>>)
    ELSE IF validate_mobile(a.mobile) # "Ok" THEN Outcome(validate_mobile(a.mobile), S, <<>>)
    ELSE IF validate_date(a.date_of_birth) # "Ok"
         THEN Outcome(validate_date(a.date_of_birth), S, <<>>)
    ELSE IF ~FitsBound(a.first_name, MaxFirstNameLength) THEN Outcome("InvalidMemberData", S, <<>>)
    ELSE IF ~FitsBound(a.last_name, MaxLastNameLength) THEN Outcome("InvalidMemberData", S, <<>>)
    ELSE IF ~FitsBound(a.date_of_birth, MaxDateLength) THEN Outcome("InvalidDateFormat", S, <<>>)
    ELSE IF ~FitsBound(a.email, MaxEmailLength) THEN Outcome("InvalidMemberData", S, <<>>)
    ELSE IF ~FitsBound(a.address, MaxAddressLength) THEN Outcome("InvalidMemberData", S, <<>>)
    ELSE IF ~FitsBound(a.mobile, MaxMobileLength) THEN Outcome("InvalidMemberData", S, <<>>)
    ELSE IF contains_key(S.MemberByEmail, a.email) THEN Outcome("EmailAlreadyExists", S, <<>>)
    ELSE LET current_time == current_timestamp
             member_id == generate_member_uuid(<<who, a.email>>, current_time)
             member == [member_id |-> member_id,
                        member_type |-> a.member_type,
                        first_name |-> a.first_name,
                        last_name |-> a.last_name,
                        date_of_birth |-> a.date_of_birth,
                        email |-> a.email,
                        address |-> a.address,
                        mobile |-> a.mobile,
                        kyc_status |-> "Unapproved",
                        photo_hash |-> None,
                        kyc_hash |-> None,
                        created_at |-> current_time,
                        updated_at |-> current_time,
                        created_by |-> who]
             member_index == S.MemberCount
         IN  Outcome("Ok",
                     [Members |-> Insert(S.Members, member_id, member),
                      AccountToMember |-> Insert(S.AccountToMember, who, member_id),
                      MemberByEmail |-> Insert(S.MemberByEmail, a.email, member_id),
                      MemberByIndex |-> Insert(S.MemberByIndex, member_index, member_id),
                      MemberCount |-> saturating_add(member_index, 1)],
                     <<[event |-> "MemberRegistered", member_id |-> member_id,
                        account |-> who, email |-> a.email]>>)

\* register_member as it would be if the order entry were written at the
\* incremented count
register_member_IndexAfterCount(S, origin, a) ==
    IF ~ensure_signed(origin) THEN Outcome("BadOrigin", S, <<>>)
    ELSE LET who == origin[2] IN
    IF contains_key(S.AccountToMember, who) THEN Outcome("MemberAlreadyExists", S, <<>>)
    ELSE IF validate_email(a.email) # "Ok" THEN Outcome(validate_email(a.email), S, <<>>)
    ELSE IF validate_mobile(a.mobile) # "Ok" THEN Outcome(validate_mobile(a.mobile), S, <<>>)
    ELSE IF validate_date(a.date_of_birth) # "Ok"
         THEN Outcome(validate_date(a.date_of_birth), S, <<>>)
    ELSE IF ~FitsBound(a.first_name, MaxFirstNameLength) THEN Outcome("InvalidMemberData", S, <<>>)
    ELSE IF ~FitsBound(a.last_name, MaxLastNameLength) THEN Outcome("InvalidMemberData", S, <<>>)
    ELSE IF ~FitsBound(a.date_of_birth, MaxDateLength) THEN Outcome("InvalidDateFormat", S, <<>>)
    ELSE IF ~FitsBound(a.email, MaxEmailLength) THEN Outcome("InvalidMemberData", S, <<>>)
    ELSE IF ~FitsBound(a.address, MaxAddressLength) THEN Outcome("InvalidMemberData", S, <<>>)
    ELSE IF ~FitsBound(a.mobile, MaxMobileLength) THEN Outcome("InvalidMemberData", S, <<>>)
    ELSE IF contains_key(S.MemberByEmail, a.email) THEN Outcome("EmailAlreadyExists", S, <<>>)
    ELSE LET current_time == current_timestamp
             member_id == generate_member_uuid(who, current_time)
             member == [member_id |-> member_id,
                        member_type |-> a.member_type,
                        first_name |-> a.first_name,
                        last_name |-> a.last_name,
                        date_of_birth |-> a.date_of_birth,
                        email |-> a.email,
                        address |-> a.address,
                        mobile |-> a.mobile,
                        kyc_status |-> "Unapproved",
                        photo_hash |-> None,
                        kyc_hash |-> None,
                        created_at |-> current_time,
                        updated_at |-> current_time,
                        created_by |-> who]
             member_index == S.MemberCount
         IN  Outcome("Ok",
                     [Members |-> Insert(S.Members, member_id, member),
                      AccountToMember |-> Insert(S.AccountToMember, who, member_id),
                      MemberByEmail |-> Insert(S.MemberByEmail, a.email, member_id),
                      MemberByIndex |-> Insert(S.MemberByIndex, saturating_add(member_index, 1),
                                               member_id),
                      MemberCount |-> saturating_add(member_index, 1)],
                     <<[event |-> "MemberRegistered", member_id |-> member_id,
                        account |-> who, email |-> a.email]>>)

register_member(S, origin, a) ==
    IF ~ensure_signed(origin) THEN Outcome("BadOrigin", S, <<>>)
    ELSE LET who == origin[2] IN
    IF contains_key(S.AccountToMember, who) THEN Outcome("MemberAlreadyExists", S, <<>>)
    ELSE IF validate_email(a.email) # "Ok" THEN Outcome(validate_email(a.email), S, <<>>)
    ELSE IF validate_mobile(a.mobile) # "Ok" THEN Outcome(validate_mobile(a.mobile), S, <<>>)
    ELSE IF validate_date(a.date_of_birth) # "Ok"
         THEN Outcome(validate_date(a.date_of_birth), S, <<>>)
    ELSE IF ~FitsBound(a.first_name, MaxFirstNameLength) THEN Outcome("InvalidMemberData", S, <<>>)
    ELSE IF ~FitsBound(a.last_name, MaxLastNameLength) THEN Outcome("InvalidMemberData", S, <<>>)
    ELSE IF ~FitsBound(a.date_of_birth, MaxDateLength) THEN Outcome("InvalidDateFormat", S, <<>>)
    ELSE IF ~FitsBound(a.email, MaxEmailLength) THEN Outcome("InvalidMemberData", S, <<>>)
    ELSE IF ~FitsBound(a.address, MaxAddressLength) THEN Outcome("InvalidMemberData", S, <<>>)
    ELSE IF ~FitsBound(a.mobile, MaxMobileLength) THEN Outcome("InvalidMemberData", S, <<>>)
    ELSE IF contains_key(S.MemberByEmail, a.email) THEN Outcome("EmailAlreadyExists", S, <<>>)
    ELSE LET current_time == current_timestamp
             member_id == generate_member_uuid(who, current_time)
             member == [member_id |-> member_id,
                        member_type |-> a.member_type,
                        first_name |-> a.first_name,
                        last_name |-> a.last_name,
                        date_of_birth |-> a.date_of_birth,
                        email |-> a.email,
                        address |-> a.address,
                        mobile |-> a.mobile,
                        kyc_status |-> "Unapproved",
                        photo_hash |-> None,
                        kyc_hash |-> None,
                        created_at |-> current_time,
                        updated_at |-> current_time,
                        created_by |-> who]
             member_index == S.MemberCount
         IN  Outcome("Ok",
                     [Members |-> Insert(S.Members, member_id, member),
                      AccountToMember |-> Insert(S.AccountToMember, who, member_id),
                      MemberByEmail |-> Insert(S.MemberByEmail, a.email, member_id),
                      MemberByIndex |-> Insert(S.MemberByIndex, member_index, member_id),
                      MemberCount |-> saturating_add(member_index, 1)],
                     <<[event |-> "MemberRegistered", member_id |-> member_id,
                        account |-> who, email |-> a.email]>>)

(***************************************************************************)
(* get_member                                                              *)
(***************************************************************************)
\* get_member as it would be if the event repeated created_at as updated_at
get_member_CreatedTwice(S, origin) ==
    IF ~ensure_signed(origin) THEN Outcome("BadOrigin", S, <<>>)
    ELSE LET who == origin[2] IN
    IF ~contains_key(S.AccountToMember, who) THEN Outcome("MemberNotFound", S, <<>>)
    ELSE LET member_id == S.AccountToMember[who] IN
    IF ~contains_key(S.Members, member_id) THEN Outcome("MemberNotFound", S, <<>>)
    ELSE LET member == S.Members[member_id] IN
    IF member.created_by # who THEN Outcome("NotMemberOwner", S, <<>>)
    ELSE Outcome("Ok", S,
                 <<[event |-> "MemberDataRetrieved", member_id |-> member_id,
                    accessed_by |-> who, member_type |-> member.member_type,
                    first_name |-> member.first_name, last_name |-> member.last_name,
                    date_of_birth |-> member.date_of_birth, email |-> member.email,
                    address |-> member.address, mobile |-> member.mobile,
                    photo_hash |-> member.photo_hash, kyc_status |-> member.kyc_status,
                    kyc_hash |-> member.kyc_hash, created_at |-> member.created_at,
                    updated_at |-> member.created_at]>>)

get_member(S, origin) ==
    IF ~ensure_signed(origin) THEN Outcome("BadOrigin", S, <<>>)
    ELSE LET who == origin[2] IN
    IF ~contains_key(S.AccountToMember, who) THEN Outcome("MemberNotFound", S, <<>>)
    ELSE LET member_id == S.AccountToMember[who] IN
    IF ~contains_key(S.Members, member_id) THEN Outcome("MemberNotFound", S, <<>>)
    ELSE LET member == S.Members[member_id] IN
    IF member.created_by # who THEN Outcome("NotMemberOwner", S, <<>>)
    ELSE Outcome("Ok", S,
                 <<[event |-> "MemberDataRetrieved", member_id |-> member_id,
                    accessed_by |-> who, member_type |-> member.member_type,
                    first_name |-> member.first_name, last_name |-> member.last_name,
                    date_of_birth |-> member.date_of_birth, email |-> member.email,
                    address |-> member.address, mobile |-> member.mobile,
                    photo_hash |-> member.photo_hash, kyc_status |-> member.kyc_status,
                    kyc_hash |-> member.kyc_hash, created_at |-> member.created_at,
                    updated_at |-> member.updated_at]>>)

(***************************************************************************)
(* update_member.  The body works on a frame of its locals: the member     *)
(* being edited, profile_changed, new_email, the storage as written so     *)
(* far, and err, which is "Ok" until a `?` or an ensure! returns early.    *)
(* Each field's block is one step over the frame; opt is the Option        *)
(* argument of the field.                                                  *)
(***************************************************************************)
Fail(F, e) == [F EXCEPT !.err = e]

\* lines 513-518
UpdMemberType(F, opt) ==
    IF F.err # "Ok" \/ opt = None THEN F
    ELSE IF opt[1] # F.member.member_type
         THEN [F EXCEPT !.member.member_type = opt[1], !.profile_changed = TRUE]
         ELSE F

\* lines 521-528
UpdFirstName(F, opt) ==
    IF F.err # "Ok" \/ opt = None THEN F
    ELSE IF ~FitsBound(opt[1], MaxFirstNameLength) THEN Fail(F, "InvalidMemberData")
    ELSE IF opt[1] # F.member.first_name
         THEN [F EXCEPT !.member.first_name = opt[1], !.profile_changed = TRUE]
         ELSE F

\* lines 531-538
UpdLastName(F, opt) ==
    IF F.err # "Ok" \/ opt = None THEN F
    ELSE IF ~FitsBound(opt[1], MaxLastNameLength) THEN Fail(F, "InvalidMemberData")
    ELSE IF opt[1] # F.member.last_name
         THEN [F EXCEPT !.member.last_name = opt[1], !.profile_changed = TRUE]
         ELSE F

\* lines 541-551
UpdDateOfBirth(F, opt) ==
    IF F.err # "Ok" \/ opt = None THEN F
    ELSE IF validate_date(opt[1]) # "Ok" THEN Fail(F, validate_date(opt[1]))
    ELSE IF ~FitsBound(opt[1], MaxDateLength) THEN Fail(F, "InvalidDateFormat")
    ELSE IF opt[1] # F.member.date_of_birth
         THEN [F EXCEPT !.member.date_of_birth = opt[1], !.profile_changed = TRUE]
         ELSE F

\* UpdEmail as it would be if the email index were checked before the
\* comparison with the member's own email
UpdEmail_RefusesOwnEmail(F, opt) ==
    IF F.err # "Ok" \/ opt = None THEN F
    ELSE IF validate_email(opt[1]) # "Ok" THEN Fail(F, validate_email(opt[1]))
    ELSE IF ~FitsBound(opt[1], MaxEmailLength) THEN Fail(F, "InvalidMemberData")
    ELSE IF contains_key(F.st.MemberByEmail, opt[1]) THEN Fail(F, "EmailAlreadyExists")
    ELSE [F EXCEPT
            !.st.MemberByEmail =
                Insert(Remove(F.st.MemberByEmail, F.member.email), opt[1], F.member_id),
            !.member.email = opt[1],
            !.new_email = opt[1],
            !.profile_changed = TRUE]

\* UpdEmail as it would be if it removed the new email from the index and
\* inserted the old one
UpdEmail_IndexesOldEmail(F, opt) ==
    IF F.err # "Ok" \/ opt = None THEN F
    ELSE IF validate_email(opt[1]) # "Ok" THEN Fail(F, validate_email(opt[1]))
    ELSE IF ~FitsBound(opt[1], MaxEmailLength) THEN Fail(F, "InvalidMemberData")
    ELSE IF opt[1] # F.member.email
         THEN IF contains_key(F.st.MemberByEmail, opt[1])
                 /\ F.st.MemberByEmail[opt[1]] # F.member_id
              THEN Fail(F, "EmailAlreadyExists")
              ELSE [F EXCEPT
                      !.st.MemberByEmail =
                          Insert(Remove(F.st.MemberByEmail, opt[1]),
                                 F.member.email, F.member_id),
                      !.member.email = opt[1],
                      !.new_email = opt[1],
                      !.profile_changed = TRUE]
         ELSE F

\* UpdEmail as it would be without the check on the email index
UpdEmail_NoUniquenessCheck(F, opt) ==
    IF F.err # "Ok" \/ opt = None THEN F
    ELSE IF validate_email(opt[1]) # "Ok" THEN Fail(F, validate_email(opt[1]))
    ELSE IF ~FitsBound(opt[1], MaxEmailLength) THEN Fail(F, "InvalidMemberData")
    ELSE IF opt[1] # F.member.email
         THEN [F EXCEPT
                 !.st.MemberByEmail =
                     Insert(Remove(F.st.MemberByEmail, F.member.email),
                            opt[1], F.member_id),
                 !.member.email = opt[1],
                 !.new_email = opt[1],
                 !.profile_changed = TRUE]
         ELSE F

\* UpdEmail as it would be if the old email stayed in the index
UpdEmail_KeepsOldEntry(F, opt) ==
    IF F.err # "Ok" \/ opt = None THEN F
    ELSE IF validate_email(opt[1]) # "Ok" THEN Fail(F, validate_email(opt[1]))
    ELSE IF ~FitsBound(opt[1], MaxEmailLength) THEN Fail(F, "InvalidMemberData")
    ELSE IF opt[1] # F.member.email
         THEN IF contains_key(F.st.MemberByEmail, opt[1])
                 /\ F.st.MemberByEmail[opt[1]] # F.member_id
              THEN Fail(F, "EmailAlreadyExists")
              ELSE [F EXCEPT
                      !.st.MemberByEmail = Insert(F.st.MemberByEmail, opt[1], F.member_id),
                      !.member.email = opt[1],
                      !.new_email = opt[1],
                      !.profile_changed = TRUE]
         ELSE F

\* lines 554-576: the email index is rewritten here, before the fields
\* that follow are looked at
\* update_member's email step as it would be if the old mapping were
\* removed last, through member.email after its assignment
UpdEmail_RemovesLast(F, opt) ==
    IF F.err # "Ok" \/ opt = None THEN F
    ELSE IF validate_email(opt[1]) # "Ok" THEN Fail(F, validate_email(opt[1]))
    ELSE IF ~FitsBound(opt[1], MaxEmailLength) THEN Fail(F, "InvalidMemberData")
    ELSE IF opt[1] # F.member.email
         THEN IF contains_key(F.st.MemberByEmail, opt[1])
                 /\ F.st.MemberByEmail[opt[1]] # F.member_id
              THEN Fail(F, "EmailAlreadyExists")
              ELSE [F EXCEPT
                      !.st.MemberByEmail =
                          Remove(Insert(F.st.MemberByEmail, opt[1], F.member_id),
                                 opt[1]),
                      !.member.email = opt[1],
                      !.new_email = opt[1],
                      !.profile_changed = TRUE]
         ELSE F

UpdEmail(F, opt) ==
    IF F.err # "Ok" \/ opt = None THEN F
    ELSE IF validate_email(opt[1]) # "Ok" THEN Fail(F, validate_email(opt[1]))
    ELSE IF ~FitsBound(opt[1], MaxEmailLength) THEN Fail(F, "InvalidMemberData")
    ELSE IF opt[1] # F.member.email
         THEN IF contains_key(F.st.MemberByEmail, opt[1])
                 /\ F.st.MemberByEmail[opt[1]] # F.member_id
              THEN Fail(F, "EmailAlreadyExists")
              ELSE [F EXCEPT
                      !.st.MemberByEmail =
                          Insert(Remove(F.st.MemberByEmail, F.member.email),
                                 opt[1], F.member_id),
                      !.member.email = opt[1],
                      !.new_email = opt[1],
                      !.profile_changed = TRUE]
         ELSE F

\* lines 579-586
UpdAddress(F, opt) ==
    IF F.err # "Ok" \/ opt = None THEN F
    ELSE IF ~FitsBound(opt[1], MaxAddressLength) THEN Fail(F, "InvalidMemberData")
    ELSE IF opt[1] # F.member.address
         THEN [F EXCEPT !.member.address = opt[1], !.profile_changed = TRUE]
         ELSE F

\* UpdMobile as it would be without the validation of the new mobile
UpdMobile_NotValidated(F, opt) ==
    IF F.err # "Ok" \/ opt = None THEN F
    ELSE IF ~FitsBound(opt[1], MaxMobileLength) THEN Fail(F, "InvalidMemberData")
    ELSE IF opt[1] # F.member.mobile
         THEN [F EXCEPT !.member.mobile = opt[1], !.profile_changed = TRUE]
         ELSE F

\* lines 589-599
UpdMobile(F, opt) ==
    IF F.err # "Ok" \/ opt = None THEN F
    ELSE IF validate_mobile(opt[1]) # "Ok" THEN Fail(F, validate_mobile(opt[1]))
    ELSE IF ~FitsBound(opt[1], MaxMobileLength) THEN Fail(F, "InvalidMemberData")
    ELSE IF opt[1] # F.member.mobile
         THEN [F EXCEPT !.member.mobile = opt[1], !.profile_changed = TRUE]
         ELSE F

\* UpdFinish as it would be if an edit that changes nothing were reported
UpdFinish_ReportsNoChange(F, who) ==
    IF F.err # "Ok" THEN Outcome(F.err, F.st, <<>>)
    ELSE IF F.profile_changed
    THEN LET member == [F.member EXCEPT !.kyc_status = "Unapproved",
                                        !.updated_at = current_timestamp]
             previous_email == IF F.new_email # F.old_email THEN Some(F.old_email) ELSE None
         IN  Outcome("Ok",
                     [F.st EXCEPT !.Members = Insert(F.st.Members, F.member_id, member)],
                     <<[event |-> "MemberUpdated", member_id |-> F.member_id,
                        updated_by |-> who, previous_email |-> previous_email,
                        new_email |-> F.new_email]>>)
    ELSE Outcome("Ok", F.st,
                 <<[event |-> "MemberUpdated", member_id |-> F.member_id,
                    updated_by |-> who, previous_email |-> None,
                    new_email |-> F.new_email]>>)

\* UpdFinish as it would be if the event always carried the old email
UpdFinish_AlwaysPreviousEmail(F, who) ==
    IF F.err # "Ok" THEN Outcome(F.err, F.st, <<>>)
    ELSE IF F.profile_changed
    THEN LET member == [F.member EXCEPT !.kyc_status = "Unapproved",
                                        !.updated_at = current_timestamp]
             previous_email == Some(F.old_email)
         IN  Outcome("Ok",
                     [F.st EXCEPT !.Members = Insert(F.st.Members, F.member_id, member)],
                     <<[event |-> "MemberUpdated", member_id |-> F.member_id,
                        updated_by |-> who, previous_email |-> previous_email,
                        new_email |-> F.new_email]>>)
    ELSE Outcome("Ok", F.st, <<>>)

\* UpdFinish as it would be if an edit left kyc_status alone
UpdFinish_KeepsKycStatus(F, who) ==
    IF F.err # "Ok" THEN Outcome(F.err, F.st, <<>>)
    ELSE IF F.profile_changed
    THEN LET member == [F.member EXCEPT !.updated_at = current_timestamp]
             previous_email == IF F.new_email # F.old_email THEN Some(F.old_email) ELSE None
         IN  Outcome("Ok",
                     [F.st EXCEPT !.Members = Insert(F.st.Members, F.member_id, member)],
                     <<[event |-> "MemberUpdated", member_id |-> F.member_id,
                        updated_by |-> who, previous_email |-> previous_email,
                        new_email |-> F.new_email]>>)
    ELSE Outcome("Ok", F.st, <<>>)

\* UpdFinish as it would be if it stored the member whether or not a field
\* changed
UpdFinish_AlwaysStores(F, who) ==
    IF F.err # "Ok" THEN Outcome(F.err, F.st, <<>>)
    ELSE LET member == [F.member EXCEPT !.kyc_status = "Unapproved",
                                        !.updated_at = current_timestamp]
             previous_email == IF F.new_email # F.old_email THEN Some(F.old_email) ELSE None
         IN  Outcome("Ok",
                     [F.st EXCEPT !.Members = Insert(F.st.Members, F.member_id, member)],
                     <<[event |-> "MemberUpdated", member_id |-> F.member_id,
                        updated_by |-> who, previous_email |-> previous_email,
                        new_email |-> F.new_email]>>)

\* lines 602-625
\* the end of update_member as it would be if the reset of the status also
\* dropped the submitted documents
UpdFinish_DropsDocuments(F, who) ==
    IF F.err # "Ok" THEN Outcome(F.err, F.st, <<>>)
    ELSE IF F.profile_changed
    THEN LET member == [F.member EXCEPT !.kyc_status = "Unapproved",
                                        !.kyc_hash = None,
                                        !.photo_hash = None,
                                        !.updated_at = current_timestamp]
             previous_email == IF F.new_email # F.old_email THEN Some(F.old_email) ELSE None
         IN  Outcome("Ok",
                     [F.st EXCEPT !.Members = Insert(F.st.Members, F.member_id, member)],
                     <<[event |-> "MemberUpdated", member_id |-> F.member_id,
                        updated_by |-> who, previous_email |-> previous_email,
                        new_email |-> F.new_email]>>)
    ELSE Outcome("Ok", F.st, <<>>)

UpdFinish(F, who) ==
    IF F.err # "Ok" THEN Outcome(F.err, F.st, <<>>)
    ELSE IF F.profile_changed
    THEN LET member == [F.member EXCEPT !.kyc_status = "Unapproved",
                                        !.updated_at = current_timestamp]
             previous_email == IF F.new_email # F.old_email THEN Some(F.old_email) ELSE None
         IN  Outcome("Ok",
                     [F.st EXCEPT !.Members = Insert(F.st.Members, F.member_id, member)],
                     <<[event |-> "MemberUpdated", member_id |-> F.member_id,
                        updated_by |-> who, previous_email |-> previous_email,
                        new_email |-> F.new_email]>>)
    ELSE Outcome("Ok", F.st, <<>>)

update_member(S, origin, a) ==
    IF ~ensure_signed(origin) THEN Outcome("BadOrigin", S, <<>>)
    ELSE LET who == origin[2] IN
    IF ~contains_key(S.AccountToMember, who) THEN Outcome("MemberNotFound", S, <<>>)
    ELSE LET member_id == S.AccountToMember[who] IN
    IF ~contains_key(S.Members, member_id) THEN Outcome("MemberNotFound", S, <<>>)
    ELSE LET member == S.Members[member_id] IN
    IF member.created_by # who THEN Outcome("NotMemberOwner", S, <<>>)
    ELSE LET F0 == [member_id |-> member_id, member |-> member,
                    profile_changed |-> FALSE,
                    old_email |-> member.email, new_email |-> member.email,
                    st |-> S, err |-> "Ok"]
             F1 == UpdMemberType(F0, a.member_type)
             F2 == UpdFirstName(F1, a.first_name)
             F3 == UpdLastName(F2, a.last_name)
             F4 == UpdDateOfBirth(F3, a.date_of_birth)
             F5 == UpdEmail(F4, a.email)
             F6 == UpdAddress(F5, a.address)
             F7 == UpdMobile(F6, a.mobile)
         IN  UpdFinish(F7, who)

(***************************************************************************)
(* submit_kyc                                                              *)
(***************************************************************************)
\* submit_kyc as it would be if it took the first registered member
\* instead of the caller's
submit_kyc_FirstMember(S, origin, kyc_hash, photo_hash) ==
    IF ~ensure_signed(origin) THEN Outcome("BadOrigin", S, <<>>)
    ELSE LET who == origin[2] IN
    IF ~contains_key(S.MemberByIndex, 0) THEN Outcome("MemberNotFound", S, <<>>)
    ELSE LET member_id == S.MemberByIndex[0] IN
    IF ~contains_key(S.Members, member_id) THEN Outcome("MemberNotFound", S, <<>>)
    ELSE LET member == S.Members[member_id]
             m2 == [member EXCEPT
                      !.kyc_hash = Some(kyc_hash),
                      !.photo_hash = IF photo_hash # None THEN photo_hash ELSE @,
                      !.updated_at = current_timestamp]
         IN  Outcome("Ok",
                     [S EXCEPT !.Members = Insert(S.Members, member_id, m2)],
                     <<[event |-> "KycSubmitted", member_id |-> member_id,
                        submitted_by |-> who, kyc_hash |-> kyc_hash]>>)

\* submit_kyc as it would be if photo_hash were assigned whether or not
\* one is supplied
submit_kyc_AssignsPhoto(S, origin, kyc_hash, photo_hash) ==
    IF ~ensure_signed(origin) THEN Outcome("BadOrigin", S, <<>>)
    ELSE LET who == origin[2] IN
    IF ~contains_key(S.AccountToMember, who) THEN Outcome("MemberNotFound", S, <<>>)
    ELSE LET member_id == S.AccountToMember[who] IN
    IF ~contains_key(S.Members, member_id) THEN Outcome("MemberNotFound", S, <<>>)
    ELSE LET member == S.Members[member_id] IN
    IF member.created_by # who THEN Outcome("NotMemberOwner", S, <<>>)
    ELSE LET m2 == [member EXCEPT
                      !.kyc_hash = Some(kyc_hash),
                      !.photo_hash = photo_hash,
                      !.updated_at = current_timestamp]
         IN  Outcome("Ok",
                     [S EXCEPT !.Members = Insert(S.Members, member_id, m2)],
                     <<[event |-> "KycSubmitted", member_id |-> member_id,
                        submitted_by |-> who, kyc_hash |-> kyc_hash]>>)

\* submit_kyc as it would be if submitting again, over a document already
\* stored, sent the member back to Unapproved
submit_kyc_ResubmissionResets(S, origin, kyc_hash, photo_hash) ==
    IF ~ensure_signed(origin) THEN Outcome("BadOrigin", S, <<>>)
    ELSE LET who == origin[2] IN
    IF ~contains_key(S.AccountToMember, who) THEN Outcome("MemberNotFound", S, <<>>)
    ELSE LET member_id == S.AccountToMember[who] IN
    IF ~contains_key(S.Members, member_id) THEN Outcome("MemberNotFound", S, <<>>)
    ELSE LET member == S.Members[member_id] IN
    IF member.created_by # who THEN Outcome("NotMemberOwner", S, <<>>)
    ELSE LET m2 == [member EXCEPT
                      !.kyc_status = IF member.kyc_hash # None THEN "Unapproved" ELSE @,
                      !.kyc_hash = Some(kyc_hash),
                      !.photo_hash = IF photo_hash # None THEN photo_hash ELSE @,
                      !.updated_at = current_timestamp]
         IN  Outcome("Ok",
                     [S EXCEPT !.Members = Insert(S.Members, member_id, m2)],
                     <<[event |-> "KycSubmitted", member_id |-> member_id,
                        submitted_by |-> who, kyc_hash |-> kyc_hash]>>)

submit_kyc(S, origin, kyc_hash, photo_hash) ==
    IF ~ensure_signed(origin) THEN Outcome("BadOrigin", S, <<>>)
    ELSE LET who == origin[2] IN
    IF ~contains_key(S.AccountToMember, who) THEN Outcome("MemberNotFound", S, <<>>)
    ELSE LET member_id == S.AccountToMember[who] IN
    IF ~contains_key(S.Members, member_id) THEN Outcome("MemberNotFound", S, <<>>)
    ELSE LET member == S.Members[member_id] IN
    IF member.created_by # who THEN Outcome("NotMemberOwner", S, <<>>)
    ELSE LET m2 == [member EXCEPT
                      !.kyc_hash = Some(kyc_hash),
                      !.photo_hash = IF photo_hash # None THEN photo_hash ELSE @,
                      !.updated_at = current_timestamp]
         IN  Outcome("Ok",
                     [S EXCEPT !.Members = Insert(S.Members, member_id, m2)],
                     <<[event |-> "KycSubmitted", member_id |-> member_id,
                        submitted_by |-> who, kyc_hash |-> kyc_hash]>>)

(***************************************************************************)
(* update_kyc_status and admin_update_kyc_status                           *)
(***************************************************************************)
\* update_kyc_status as it would be if it refused to set the status the
\* member already has
update_kyc_status_ChecksTransition(S, origin, member_id, new_status) ==
    IF ~ensure_signed(origin) THEN Outcome("BadOrigin", S, <<>>)
    ELSE LET who == origin[2] IN
    IF ~contains_key(S.Members, member_id) THEN Outcome("MemberNotFound", S, <<>>)
    ELSE LET member == S.Members[member_id]
             old_status == member.kyc_status
             m2 == [member EXCEPT !.kyc_status = new_status,
                                  !.updated_at = current_timestamp]
         IN  IF old_status = new_status
             THEN Outcome("InvalidKycStatusTransition", S, <<>>)
             ELSE Outcome("Ok",
                     [S EXCEPT !.Members = Insert(S.Members, member_id, m2)],
                     <<[event |-> "KycStatusUpdated", member_id |-> member_id,
                        updated_by |-> who, old_status |-> old_status,
                        new_status |-> new_status]>>)

\* update_kyc_status as it would be if a Rejected status dropped the
\* submitted documents
update_kyc_status_DropsDocuments(S, origin, member_id, new_status) ==
    IF ~ensure_signed(origin) THEN Outcome("BadOrigin", S, <<>>)
    ELSE LET who == origin[2] IN
    IF ~contains_key(S.Members, member_id) THEN Outcome("MemberNotFound", S, <<>>)
    ELSE LET member == S.Members[member_id]
             old_status == member.kyc_status
             m2 == [member EXCEPT !.kyc_status = new_status,
                                  !.kyc_hash = IF new_status = "Rejected" THEN None ELSE @,
                                  !.updated_at = current_timestamp]
         IN  Outcome("Ok",
                     [S EXCEPT !.Members = Insert(S.Members, member_id, m2)],
                     <<[event |-> "KycStatusUpdated", member_id |-> member_id,
                        updated_by |-> who, old_status |-> old_status,
                        new_status |-> new_status]>>)

\* update_kyc_status as it would be if it recorded the caller in the
\* member, in created_by
update_kyc_status_TakesOwnership(S, origin, member_id, new_status) ==
    IF ~ensure_signed(origin) THEN Outcome("BadOrigin", S, <<>>)
    ELSE LET who == origin[2] IN
    IF ~contains_key(S.Members, member_id) THEN Outcome("MemberNotFound", S, <<>>)
    ELSE LET member == S.Members[member_id]
             old_status == member.kyc_status
             m2 == [member EXCEPT !.kyc_status = new_status,
                                  !.created_by = who,
                                  !.updated_at = current_timestamp]
         IN  Outcome("Ok",
                     [S EXCEPT !.Members = Insert(S.Members, member_id, m2)],
                     <<[event |-> "KycStatusUpdated", member_id |-> member_id,
                        updated_by |-> who, old_status |-> old_status,
                        new_status |-> new_status]>>)

\* update_kyc_status as it would be if a rejection removed the member
update_kyc_status_RejectRemoves(S, origin, member_id, new_status) ==
    IF ~ensure_signed(origin) THEN Outcome("BadOrigin", S, <<>>)
    ELSE LET who == origin[2] IN
    IF ~contains_key(S.Members, member_id) THEN Outcome("MemberNotFound", S, <<>>)
    ELSE LET member == S.Members[member_id]
             old_status == member.kyc_status
             m2 == [member EXCEPT !.kyc_status = new_status,
                                  !.updated_at = current_timestamp]
         IN  Outcome("Ok",
                     IF new_status = "Rejected"
                     THEN [S EXCEPT !.Members = Remove(S.Members, member_id),
                                    !.AccountToMember =
                                        Remove(S.AccountToMember, member.created_by)]
                     ELSE [S EXCEPT !.Members = Insert(S.Members, member_id, m2)],
                     <<[event |-> "KycStatusUpdated", member_id |-> member_id,
                        updated_by |-> who, old_status |-> old_status,
                        new_status |-> new_status]>>)

update_kyc_status(S, origin, member_id, new_status) ==
    IF ~ensure_signed(origin) THEN Outcome("BadOrigin", S, <<>>)
    ELSE LET who == origin[2] IN
    IF ~contains_key(S.Members, member_id) THEN Outcome("MemberNotFound", S, <<>>)
    ELSE LET member == S.Members[member_id]
             old_status == member.kyc_status
             m2 == [member EXCEPT !.kyc_status = new_status,
                                  !.updated_at = current_timestamp]
         IN  Outcome("Ok",
                     [S EXCEPT !.Members = Insert(S.Members, member_id, m2)],
                     <<[event |-> "KycStatusUpdated", member_id |-> member_id,
                        updated_by |-> who, old_status |-> old_status,
                        new_status |-> new_status]>>)

\* admin_update_kyc_status as it would be if it stamped the time of creation
admin_update_kyc_status_StampsCreation(S, origin, member_id, new_status) ==
    IF ~ensure_root(origin) THEN Outcome("BadOrigin", S, <<>>)
    ELSE IF ~contains_key(S.Members, member_id) THEN Outcome("MemberNotFound", S, <<>>)
    ELSE LET member == S.Members[member_id]
             old_status == member.kyc_status
             m2 == [member EXCEPT !.kyc_status = new_status,
                                  !.updated_at = member.created_at]
         IN  Outcome("Ok",
                     [S EXCEPT !.Members = Insert(S.Members, member_id, m2)],
                     <<[event |-> "KycStatusUpdated", member_id |-> member_id,
                        updated_by |-> m2.created_by, old_status |-> old_status,
                        new_status |-> new_status]>>)

\* admin_update_kyc_status as it would be if it wrote nothing when the
\* member already has the new status
admin_update_kyc_status_SkipsSameStatus(S, origin, member_id, new_status) ==
    IF ~ensure_root(origin) THEN Outcome("BadOrigin", S, <<>>)
    ELSE IF ~contains_key(S.Members, member_id) THEN Outcome("MemberNotFound", S, <<>>)
    ELSE LET member == S.Members[member_id]
             old_status == member.kyc_status
             m2 == [member EXCEPT !.kyc_status = new_status,
                                  !.updated_at = current_timestamp]
         IN  IF old_status = new_status THEN Outcome("Ok", S, <<>>)
             ELSE Outcome("Ok",
                     [S EXCEPT !.Members = Insert(S.Members, member_id, m2)],
                     <<[event |-> "KycStatusUpdated", member_id |-> member_id,
                        updated_by |-> m2.created_by, old_status |-> old_status,
                        new_status |-> new_status]>>)

\* admin_update_kyc_status as it would be with ensure_signed for ensure_root
admin_update_kyc_status_Signed(S, origin, member_id, new_status) ==
    IF ~ensure_signed(origin) THEN Outcome("BadOrigin", S, <<>>)
    ELSE IF ~contains_key(S.Members, member_id) THEN Outcome("MemberNotFound", S, <<>>)
    ELSE LET member == S.Members[member_id]
             old_status == member.kyc_status
             m2 == [member EXCEPT !.kyc_status = new_status,
                                  !.updated_at = current_timestamp]
         IN  Outcome("Ok",
                     [S EXCEPT !.Members = Insert(S.Members, member_id, m2)],
                     <<[event |-> "KycStatusUpdated", member_id |-> member_id,
                        updated_by |-> m2.created_by, old_status |-> old_status,
                        new_status |-> new_status]>>)

admin_update_kyc_status(S, origin, member_id, new_status) ==
    IF ~ensure_root(origin) THEN Outcome("BadOrigin", S, <<>>)
    ELSE IF ~contains_key(S.Members, member_id) THEN Outcome("MemberNotFound", S, <<>>)
    ELSE LET member == S.Members[member_id]
             old_status == member.kyc_status
             m2 == [member EXCEPT !.kyc_status = new_status,
                                  !.updated_at = current_timestamp]
         IN  Outcome("Ok",
                     [S EXCEPT !.Members = Insert(S.Members, member_id, m2)],
                     <<[event |-> "KycStatusUpdated", member_id |-> member_id,
                        updated_by |-> m2.created_by, old_status |-> old_status,
                        new_status |-> new_status]>>)

(***************************************************************************)
(* The call layer.  #[pallet::call] runs the body of a dispatchable in a   *)
(* storage layer: the writes and the deposited events are committed when   *)
(* the body returns Ok and discarded when it returns an error or panics.   *)
(* Committed(S, out) is what the call leaves: the storage, and the events  *)
(* it appended to the event log of the block.                              *)
(***************************************************************************)
\* a call layer that keeps the writes of a failed body
without_storage_layer(S, out) == [st |-> out.st, ev |-> out.ev]

with_storage_layer(S, out) ==
    IF out.res = "Ok" THEN [st |-> out.st, ev |-> out.ev]
    ELSE [st |-> S, ev |-> <<>>]

\* one extrinsic: the outcome of its body, through the storage layer
Dispatch(out) ==
    LET kept == with_storage_layer(Storage, out) IN
    /\ Members' = kept.st.Members
    /\ AccountToMember' = kept.st.AccountToMember
    /\ MemberByEmail' = kept.st.MemberByEmail
    /\ MemberCount' = kept.st.MemberCount
    /\ MemberByIndex' = kept.st.MemberByIndex
    /\ UNCHANGED <<block_number, validation>>

(***************************************************************************)
(* Inputs.                                                                 *)
(***************************************************************************)
Blocks == 1..MaxBlock

Email1 == <<"a", "@", "b", ".", "c">>
Email2 == <<"x", "@", "y", ".", "z">>
Email3 == <<"n", ".", "m", "@", "y", ".", "z">>
Email4 == <<"d", "@", "e", ".", "f">>
\* no '@'
EmailBad == <<"n", "o", "-", "a", "t">>
\* a well-formed email of 101 bytes
EmailLong == Rep("a", 60) \o <<"@">> \o Rep("b", 38) \o <<".", "c">>
Name1 == <<"A", "l">>
Name2 == <<"B", "o">>
NameLong == Rep("n", 51)
Date1 == <<"2", "0", "0", "0", "-", "0", "1", "-", "0", "1">>
Date2 == <<"2", "0", "0", "1", "-", "0", "2", "-", "3", "1">>
\* month 13
DateBad == <<"2", "0", "0", "0", "-", "1", "3", "-", "0", "1">>
Addr1 == <<"1", " ", "M", "a", "i", "n">>
Addr2 == <<"2", " ", "M", "a", "i", "n">>
AddrLong == Rep("s", 201)
Mobile1 == <<"+", "1", "2", "3", "4", "5", "6", "7", "8">>
Mobile2 == <<"7", "6", "5", "4", "3", "2", "1">>
\* six digits
MobileBad == <<"1", "2", "3", "4", "5", "6">>
KycDoc == "QmKyc"
PhotoDoc == "QmPhoto"

\* the arguments of a registration that passes every check
RegBase == [member_type |-> "General", first_name |-> Name1, last_name |-> Name1,
            date_of_birth |-> Date1, email |-> Email1, address |-> Addr1,
            mobile |-> Mobile1]
\* update_member with no field supplied
UpdNone == [member_type |-> None, first_name |-> None, last_name |-> None,
            date_of_birth |-> None, email |-> None, address |-> None,
            mobile |-> None]

\* registrations that fail one check each
RegFaulty ==
    {[RegBase EXCEPT !.email = EmailBad], [RegBase EXCEPT !.email = EmailLong],
     [RegBase EXCEPT !.first_name = NameLong], [RegBase EXCEPT !.last_name = NameLong],
     [RegBase EXCEPT !.address = AddrLong], [RegBase EXCEPT !.mobile = MobileBad],
     [RegBase EXCEPT !.date_of_birth = DateBad]}

\* updates that fail a check, alone or after a new email was accepted
UpdFaulty ==
    {[UpdNone EXCEPT !.email = Some(EmailBad)],
     [UpdNone EXCEPT !.email = Some(EmailLong)],
     [UpdNone EXCEPT !.first_name = Some(NameLong)],
     [UpdNone EXCEPT !.last_name = Some(NameLong)],
     [UpdNone EXCEPT !.date_of_birth = Some(DateBad)],
     [UpdNone EXCEPT !.address = Some(AddrLong)],
     [UpdNone EXCEPT !.mobile = Some(MobileBad)],
     [UpdNone EXCEPT !.email = Some(Email3), !.address = Some(AddrLong)],
     [UpdNone EXCEPT !.email = Some(Email3), !.mobile = Some(MobileBad)]}

\* The registry: two accounts and root, three emails; of the profile only
\* the email is edited.  Its arguments pass every check of their format and
\* length, so that its calls fail on the origin, on the caller's profile or
\* on an email in use.
Registry ==
    [accounts |-> {"alice", "bob"},
     register |-> {[RegBase EXCEPT !.email = e] : e \in {Email1, Email2}},
     update   |-> {UpdNone}
                  \cup {[UpdNone EXCEPT !.email = Some(e)] : e \in {Email1, Email2, Email3}},
     photo    |-> {None}]

\* the registry's calls and, with them, the calls whose arguments fail a
\* check: these return an error in every state
RegistryFaulty ==
    [Registry EXCEPT !.register = @ \cup RegFaulty, !.update = @ \cup UpdFaulty]

\* One profile: one account and root; every field of the profile is edited,
\* one field or two at a time.
Profile ==
    [accounts |-> {"alice"},
     register |-> {RegBase} \cup RegFaulty,
     update   |-> {UpdNone} \cup UpdFaulty
                  \cup {[UpdNone EXCEPT !.member_type = Some(v)] : v \in {"General", "Professional"}}
                  \cup {[UpdNone EXCEPT !.first_name = Some(v)] : v \in {Name1, Name2}}
                  \cup {[UpdNone EXCEPT !.last_name = Some(v)] : v \in {Name1, Name2}}
                  \cup {[UpdNone EXCEPT !.date_of_birth = Some(v)] : v \in {Date1, Date2}}
                  \cup {[UpdNone EXCEPT !.email = Some(v)] : v \in {Email1, Email2}}
                  \cup {[UpdNone EXCEPT !.address = Some(v)] : v \in {Addr1, Addr2}}
                  \cup {[UpdNone EXCEPT !.mobile = Some(v)] : v \in {Mobile1, Mobile2}}
                  \cup {[UpdNone EXCEPT !.first_name = Some(Name1), !.email = Some(Email1),
                                        !.mobile = Some(Mobile1)]},
     photo    |-> {None, Some(PhotoDoc)}]

\* The crowd: more accounts than the counter has values below its largest,
\* each registration with an email of its own; nothing is edited.
Crowd ==
    [accounts |-> {"alice", "bob", "carol", "dave"},
     register |-> {[RegBase EXCEPT !.email = e] : e \in {Email1, Email2, Email3, Email4}},
     update   |-> {UpdNone},
     photo    |-> {None}]

Origins(U) == {Signed(w) : w \in U.accounts} \cup {Root}
\* H256 values passed as member ids: the ids an account of U gets at a
\* block, stored or not
MemberIds(U) == {generate_member_uuid(w, t) : w \in U.accounts, t \in Blocks}

(***************************************************************************)
(* Actions: one per dispatchable, and the production of a block.           *)
(***************************************************************************)
RegisterMember(U) ==
    \E origin \in Origins(U), a \in U.register :
        Dispatch(register_member(Storage, origin, a))

GetMember(U) ==
    \E origin \in Origins(U) :
        Dispatch(get_member(Storage, origin))

UpdateMember(U) ==
    \E origin \in Origins(U), a \in U.update :
        Dispatch(update_member(Storage, origin, a))

SubmitKyc(U) ==
    \E origin \in Origins(U), photo_hash \in U.photo :
        Dispatch(submit_kyc(Storage, origin, KycDoc, photo_hash))

UpdateKycStatus(U) ==
    \E origin \in Origins(U), member_id \in MemberIds(U), new_status \in KycStatus :
        Dispatch(update_kyc_status(Storage, origin, member_id, new_status))

AdminUpdateKycStatus(U) ==
    \E origin \in Origins(U), member_id \in MemberIds(U), new_status \in KycStatus :
        Dispatch(admin_update_kyc_status(Storage, origin, member_id, new_status))

\* the next block
NextBlock ==
    /\ block_number < MaxBlock
    /\ block_number' = block_number + 1
    /\ UNCHANGED <<Members, AccountToMember, MemberByEmail, MemberCount, MemberByIndex,
                   validation>>

\* a byte string handed to a validation helper, before the helper has run
NotValidated(bytes) == [arg |-> bytes, helper |-> "none", res |-> "none"]

Init ==
    /\ Members = EmptyMap
    /\ AccountToMember = EmptyMap
    /\ MemberByEmail = EmptyMap
    /\ MemberCount = 0
    /\ MemberByIndex = EmptyMap
    /\ block_number = 1
    /\ validation = NotValidated(<<>>)

Next ==
    \/ RegisterMember(Registry)
    \/ GetMember(Registry)
    \/ UpdateMember(Registry)
    \/ SubmitKyc(Registry)
    \/ UpdateKycStatus(Registry)
    \/ AdminUpdateKycStatus(Registry)
    \/ NextBlock

Spec == Init /\ [][Next]_vars

NextProfile ==
    \/ RegisterMember(Profile)
    \/ GetMember(Profile)
    \/ UpdateMember(Profile)
    \/ SubmitKyc(Profile)
    \/ UpdateKycStatus(Profile)
    \/ AdminUpdateKycStatus(Profile)
    \/ NextBlock

SpecProfile == Init /\ [][NextProfile]_vars

\* registrations only, by the crowd
NextCrowd ==
    \/ RegisterMember(Crowd)
    \/ NextBlock

SpecCrowd == Init /\ [][NextCrowd]_vars

(***************************************************************************)
(* The validation helpers on their own: a byte string is handed to one of  *)
(* the three helpers, which returns its verdict.                           *)
(***************************************************************************)
\* dates: every combination of the years, months and days below, Date1 with
\* one character replaced, other lengths, a byte that is no UTF-8, and
\* strings of 10 bytes that hold multi-byte characters
DateYears == {<<"0", "0", "0", "0">>, <<"1", "8", "9", "9">>, <<"1", "9", "0", "0">>,
              <<"2", "0", "0", "1">>, <<"2", "1", "0", "0">>, <<"2", "1", "0", "1">>}
DateMonths == {<<"0", "0">>, <<"0", "1">>, <<"0", "2">>, <<"1", "2">>, <<"1", "3">>}
DateDays == {<<"0", "0">>, <<"0", "1">>, <<"2", "9">>, <<"3", "1">>, <<"3", "2">>}
DateGrid == {y \o <<"-">> \o m \o <<"-">> \o d :
                y \in DateYears, m \in DateMonths, d \in DateDays}
DateEdited == {[Date1 EXCEPT ![i] = c] :
                  i \in 1..10, c \in {"-", "a", " ", "+", "7", Char2, BadByte}}
DateOtherLength == {<<>>, SubSeq(Date1, 1, 9), Date1 \o <<"0">>, <<"-">>}
DateMultiByte ==
    {<<Char2, Char2, Char2, Char2, "-", "1">>,
     <<Char4, Char4, "1", "2">>,
     <<Char3, Char3, Char3, "1">>,
     <<"2", "0", "0", "0", "-", Char4, "1">>,
     <<"2", "0", "0", "0", "-", Char3, "1", "1">>,
     <<"2", "0", "0", "0", "x", Char3, "1", "1">>,
     <<"2", "0", "0", "0", "-", "0", "1", "-", Char2>>,
     <<Char2, "0", "0", "0", "-", "0", "1", "-", "1">>}
DateInputs == DateGrid \cup DateEdited \cup DateOtherLength \cup DateMultiByte

\* emails: every local part below with every domain below, and strings
\* with no '@', two '@' and a byte that is no UTF-8
EmailLocals ==
    {<<>>, <<"a">>, <<".", "a">>, <<"a", ".">>, <<"a", ".", ".", "b">>,
     <<"a", ".", "b">>, <<"a", "_", "b", "-", "c", "+", "1">>, <<"a", " ", "b">>,
     <<"A", "9">>, <<"a", "!">>, <<Char2>>, <<"-", "a">>, Rep("a", 64), Rep("a", 65)}
EmailDomains ==
    {<<>>, <<"b", ".", "c">>, <<"b", "c">>, <<".", "b", ".", "c">>, <<"b", ".", "c", ".">>,
     <<"-", "b", ".", "c">>, <<"b", ".", "c", "-">>, <<"b", "-", "c", ".", "z">>,
     <<"b", "_", "c", ".", "z">>, <<"b", ".", ".", "c">>, <<"b", "+", ".", "c">>,
     <<"B", "1", ".", "c">>, <<"b", ".", Char3>>,
     Rep("b", 251) \o <<".", "c">>, Rep("b", 252) \o <<".", "c">>}
EmailInputs ==
    {l \o <<"@">> \o d : l \in EmailLocals, d \in EmailDomains}
    \cup {<<>>, <<"a", "b", ".", "c">>, <<"a", "@", "b", "@", "c", ".", "z">>,
          <<"a", "@", "@", "b", ".", "c">>, <<"a", "@", "b", ".", "c", BadByte>>}

\* mobiles: 0 to 17 digits, bare and after '+', and strings with a second
\* '+', a space, a letter, a multi-byte character, a byte that is no UTF-8
MobileDigits == {[i \in 1..n |-> Mobile2[((i - 1) % 7) + 1]] : n \in 0..17}
MobileInputs ==
    MobileDigits \cup {<<"+">> \o m : m \in MobileDigits}
    \cup {<<"+", "+">> \o Mobile2, Mobile2 \o <<"+">>, <<"+", " ">> \o Mobile2,
          <<"1", "2", "3", " ", "4", "5", "6", "7">>,
          <<"1", "2", "3", "4", "5", "6", "a">>, <<"-">> \o Mobile2,
          <<"1", "2", "3", "4", "5", "6", Char2>>, <<"1", "2", "3", "4", "5", Char2>>,
          Mobile2 \o <<BadByte>>, <<"(", "1", ")">> \o Mobile2}

ValidationInputs == DateInputs \cup EmailInputs \cup MobileInputs

\* the helper has returned res for the byte string
Validated(helper, res) == [arg |-> validation.arg, helper |-> helper, res |-> res]

ValidateDate ==
    /\ validation.helper = "none"
    /\ validation' = Validated("validate_date", validate_date(validation.arg))
    /\ UNCHANGED <<Members, AccountToMember, MemberByEmail, MemberCount, MemberByIndex,
                   block_number>>

ValidateEmail ==
    /\ validation.helper = "none"
    /\ validation' = Validated("validate_email", validate_email(validation.arg))
    /\ UNCHANGED <<Members, AccountToMember, MemberByEmail, MemberCount, MemberByIndex,
                   block_number>>

ValidateMobile ==
    /\ validation.helper = "none"
    /\ validation' = Validated("validate_mobile", validate_mobile(validation.arg))
    /\ UNCHANGED <<Members, AccountToMember, MemberByEmail, MemberCount, MemberByIndex,
                   block_number>>

InitValidation ==
    /\ Members = EmptyMap
    /\ AccountToMember = EmptyMap
    /\ MemberByEmail = EmptyMap
    /\ MemberCount = 0
    /\ MemberByIndex = EmptyMap
    /\ block_number = 1
    /\ validation \in {NotValidated(bytes) : bytes \in ValidationInputs}

NextValidation ==
    \/ ValidateDate
    \/ ValidateEmail
    \/ ValidateMobile

SpecValidation == InitValidation /\ [][NextValidation]_vars

(***************************************************************************)
(* What a call would leave, from the current state.                        *)
(***************************************************************************)
\* the storage and events a call with body outcome `out` leaves here
Kept(out) == with_storage_layer(Storage, out)

\* the call changed nothing and appended no event
Discarded(out) == Kept(out).st = Storage /\ Kept(out).ev = <<>>

\* Pallet::has_member_profile, and the member an account with a profile owns
has_member_profile(w) == contains_key(AccountToMember, w)
MemberOf(w) == Members[AccountToMember[w]]

(***************************************************************************)
(* C1: in every reachable state no two stored members share a created_by   *)
(* account, an email or a member_id.                                       *)
(***************************************************************************)
C1_Uniqueness ==
    \A i \in DOMAIN Members : \A j \in DOMAIN Members :
        i # j => /\ Members[i].created_by # Members[j].created_by
                 /\ Members[i].email # Members[j].email
                 /\ Members[i].member_id # Members[j].member_id

\* two members are stored, and one of them has changed its email to the
\* third address
C1_Witness ==
    /\ Cardinality(DOMAIN Members) = 2
    /\ \E i \in DOMAIN Members : Members[i].email = Email3

(***************************************************************************)
(* C2: the account index and the email index agree with the members: an    *)
(* entry points to a stored member with that account (that email), and     *)
(* every stored member has its account entry and its email entry.          *)
(***************************************************************************)
C2_IndexAgreement ==
    /\ \A w \in DOMAIN AccountToMember :
          /\ AccountToMember[w] \in DOMAIN Members
          /\ Members[AccountToMember[w]].created_by = w
    /\ \A e \in DOMAIN MemberByEmail :
          /\ MemberByEmail[e] \in DOMAIN Members
          /\ Members[MemberByEmail[e]].email = e
    /\ \A id \in DOMAIN Members :
          /\ Members[id].created_by \in DOMAIN AccountToMember
          /\ AccountToMember[Members[id].created_by] = id
          /\ Members[id].email \in DOMAIN MemberByEmail
          /\ MemberByEmail[Members[id].email] = id

\* two members, one of which moved from its first email to the third: the
\* email index holds exactly the two current emails
C2_Witness ==
    /\ Cardinality(DOMAIN Members) = 2
    /\ Email3 \in DOMAIN MemberByEmail
    /\ Cardinality(DOMAIN MemberByEmail) = 2

ProfileFields == {"member_type", "first_name", "last_name", "date_of_birth",
                  "email", "address", "mobile"}

\* a supplied field of the update differs from the stored member m
Differs(a, m) == \E f \in ProfileFields : a[f] # None /\ a[f][1] # m[f]

C4_EditResetsKyc ==
    \A w \in Profile.accounts, a \in Profile.update :
        LET out == update_member(Storage, Signed(w), a) IN
        (has_member_profile(w) /\ Differs(a, MemberOf(w)) /\ out.res = "Ok")
            => LET after == Kept(out).st.Members[AccountToMember[w]]
               IN  /\ after.kyc_status = "Unapproved"
                   /\ after.updated_at = block_number

\* an Approved member, last written in an earlier block, for which an
\* update of each single field succeeds and resets the status
C4_Witness ==
    \E w \in Profile.accounts :
        /\ has_member_profile(w)
        /\ MemberOf(w).kyc_status = "Approved"
        /\ MemberOf(w).updated_at < block_number
        /\ \A f \in ProfileFields :
              \E a \in Profile.update :
                 LET out == update_member(Storage, Signed(w), a) IN
                 /\ a[f] # None /\ a[f][1] # MemberOf(w)[f]
                 /\ \A g \in ProfileFields \ {f} : a[g] = None
                 /\ out.res = "Ok"
                 /\ Kept(out).st.Members[AccountToMember[w]].kyc_status = "Unapproved"

C6_OwnerOnly ==
    LET U == Registry
        OwnerOnly(o, out) ==
            /\ out.res = "Ok" =>
                  /\ o[1] = "Signed"
                  /\ has_member_profile(o[2])
                  /\ MemberOf(o[2]).created_by = o[2]
                  /\ DOMAIN Kept(out).st.Members = DOMAIN Members
                  /\ \A id \in DOMAIN Members :
                        Members[id].created_by # o[2]
                            => Kept(out).st.Members[id] = Members[id]
                  /\ \A i \in 1..Len(out.ev) :
                        Members[out.ev[i].member_id].created_by = o[2]
            /\ (o[1] = "Signed" /\ ~has_member_profile(o[2])) => out.res = "MemberNotFound"
    IN  /\ \A o \in Origins(U) : OwnerOnly(o, get_member(Storage, o))
        /\ \A o \in Origins(U), a \in U.update : OwnerOnly(o, update_member(Storage, o, a))
        /\ \A o \in Origins(U), ph \in U.photo :
              OwnerOnly(o, submit_kyc(Storage, o, KycDoc, ph))

\* two members; the one registered second reads, edits and submits, and
\* the other member's record stays as it is
C6_Witness ==
    /\ Cardinality(DOMAIN Members) = 2
    /\ LET id == MemberByIndex[1]
           w == Members[id].created_by
           other == MemberByIndex[0]
           upd == update_member(Storage, Signed(w), [UpdNone EXCEPT !.email = Some(Email3)])
           sub == submit_kyc(Storage, Signed(w), KycDoc, None)
       IN  /\ get_member(Storage, Signed(w)).res = "Ok"
           /\ upd.res = "Ok" /\ Kept(upd).st.Members[id].email = Email3
           /\ Kept(upd).st.Members[other] = Members[other]
           /\ sub.res = "Ok" /\ Kept(sub).st.Members[id].kyc_hash = Some(KycDoc)
           /\ Kept(sub).st.Members[other] = Members[other]

(***************************************************************************)
(* C7 as claimed: every field of a stored member other than kyc_status,    *)
(* updated_at among them, changes only in a signed call of the member's    *)
(* created_by: a call of any other origin leaves those fields as they are. *)
(***************************************************************************)
\* every call of universe U whose origin is not Signed(created_by) of a
\* stored member leaves Shown(member) as it is
OnlyOwnerChanges(U, Shown(_)) ==
    LET Same(o, out) ==
            \A id \in DOMAIN Members :
                o # Signed(Members[id].created_by)
                    => /\ id \in DOMAIN Kept(out).st.Members
                       /\ Shown(Kept(out).st.Members[id]) = Shown(Members[id])
    IN  \A o \in Origins(U) :
           /\ \A a \in U.register : Same(o, register_member(Storage, o, a))
           /\ Same(o, get_member(Storage, o))
           /\ \A a \in U.update : Same(o, update_member(Storage, o, a))
           /\ \A ph \in U.photo : Same(o, submit_kyc(Storage, o, KycDoc, ph))
           /\ \A mid \in MemberIds(U), ns \in KycStatus :
                 /\ Same(o, update_kyc_status(Storage, o, mid, ns))
                 /\ Same(o, admin_update_kyc_status(Storage, o, mid, ns))

AllButStatus(m) == [m EXCEPT !.kyc_status = "Unapproved"]
AllButStatusAndTime(m) == [m EXCEPT !.kyc_status = "Unapproved", !.updated_at = 0]

C7_OnlyOwnerChangesAllButStatus == OnlyOwnerChanges(Registry, AllButStatus)

(***************************************************************************)
(* C7, amended: every field of a stored member other than kyc_status and   *)
(* updated_at changes only in a signed call of the member's created_by.    *)
(***************************************************************************)
C7_OnlyOwnerChangesProfile == OnlyOwnerChanges(Registry, AllButStatusAndTime)

\* two members, the first last written in an earlier block and with its
\* documents submitted: the second member's update_kyc_status on it moves
\* its updated_at and its status, and nothing else
C7_Witness ==
    /\ Cardinality(DOMAIN Members) = 2
    /\ LET id == MemberByIndex[0]
           w == Members[MemberByIndex[1]].created_by
           out == update_kyc_status(Storage, Signed(w), id, "Rejected")
           after == Kept(out).st.Members[id]
       IN  /\ Members[id].updated_at < block_number
           /\ Members[id].kyc_hash # None
           /\ Members[id].kyc_status = "Approved"
           /\ out.res = "Ok"
           /\ after.updated_at = block_number
           /\ after = [Members[id] EXCEPT !.kyc_status = "Rejected",
                                          !.updated_at = block_number]

C9_SignedAccountCannotSetStatus ==
    \A w \in Registry.accounts, mid \in MemberIds(Registry), ns \in KycStatus :
        LET out == update_kyc_status(Storage, Signed(w), mid, ns) IN
        \A id \in DOMAIN Members :
            Kept(out).st.Members[id].kyc_status = Members[id].kyc_status

(***************************************************************************)
(* C10: admin_update_kyc_status fails with BadOrigin and changes nothing   *)
(* for every signed origin; from root, for a stored member_id, it sets     *)
(* kyc_status to new_status and deposits one KycStatusUpdated whose        *)
(* updated_by is the member's created_by.                                  *)
(***************************************************************************)
C10_RootOnly ==
    \A o \in Origins(Registry), id \in MemberIds(Registry), ns \in KycStatus :
        LET out == admin_update_kyc_status(Storage, o, id, ns) IN
        /\ o[1] = "Signed" => out.res = "BadOrigin" /\ Discarded(out)
        /\ out.res = "Ok" => o = Root
        /\ (o = Root /\ id \in DOMAIN Members) =>
              /\ out.res = "Ok"
              /\ Kept(out).st.Members[id].kyc_status = ns
              /\ Len(Kept(out).ev) = 1
              /\ Kept(out).ev[1].event = "KycStatusUpdated"
              /\ Kept(out).ev[1].member_id = id
              /\ Kept(out).ev[1].updated_by = Members[id].created_by

\* an Unapproved member that root approves, and that its own account
\* cannot approve through this call
C10_Witness ==
    \E id \in DOMAIN Members :
        LET out == admin_update_kyc_status(Storage, Root, id, "Approved")
            own == admin_update_kyc_status(Storage, Signed(Members[id].created_by),
                                           id, "Approved")
        IN  /\ Members[id].kyc_status = "Unapproved"
            /\ out.res = "Ok"
            /\ Kept(out).st.Members[id].kyc_status = "Approved"
            /\ Kept(out).ev[1].updated_by = Members[id].created_by
            /\ own.res = "BadOrigin"

(***************************************************************************)
(* C11: a successful update_kyc_status or admin_update_kyc_status writes   *)
(* the member with kyc_status = new_status and updated_at = the current    *)
(* chain time and nothing else (no other field, no other member, no index  *)
(* map, not the counter), and deposits exactly one KycStatusUpdated with   *)
(* the status before the call as old_status and the argument as            *)
(* new_status, also when the two are equal.                                *)
(***************************************************************************)
C11_StatusUpdateEffect ==
    \A o \in Origins(Registry), id \in MemberIds(Registry), ns \in KycStatus :
        LET Effect(out) ==
                out.res = "Ok" =>
                    /\ Kept(out).st =
                          [Storage EXCEPT !.Members =
                              Insert(Members, id,
                                     [Members[id] EXCEPT !.kyc_status = ns,
                                                         !.updated_at = block_number])]
                    /\ Len(Kept(out).ev) = 1
                    /\ Kept(out).ev[1].event = "KycStatusUpdated"
                    /\ Kept(out).ev[1].member_id = id
                    /\ Kept(out).ev[1].old_status = Members[id].kyc_status
                    /\ Kept(out).ev[1].new_status = ns
        IN  /\ Effect(update_kyc_status(Storage, o, id, ns))
            /\ Effect(admin_update_kyc_status(Storage, o, id, ns))

\* two members, one Approved and last written in an earlier block: both
\* operations, asked to approve it again, move its updated_at and report
\* Approved as the old and the new status
C11_Witness ==
    /\ Cardinality(DOMAIN Members) = 2
    /\ \E id \in DOMAIN Members, w \in Registry.accounts :
          LET upd == update_kyc_status(Storage, Signed(w), id, "Approved")
              adm == admin_update_kyc_status(Storage, Root, id, "Approved")
          IN  /\ Members[id].kyc_status = "Approved"
              /\ Members[id].updated_at < block_number
              /\ upd.res = "Ok" /\ adm.res = "Ok"
              /\ Kept(upd).st.Members[id].updated_at = block_number
              /\ Kept(adm).st.Members[id].updated_at = block_number
              /\ Kept(upd).ev[1].old_status = "Approved"
              /\ Kept(adm).ev[1].new_status = "Approved"

(***************************************************************************)
(* C12: register_member signed by an account that has a profile returns    *)
(* MemberAlreadyExists whatever the other arguments are, valid or not, and *)
(* changes nothing; in every reachable state an account with a profile    *)
(* has created one stored member and an account without one has created    *)
(* none.                                                                   *)
(***************************************************************************)
\* a registration in which every checked argument is invalid
RegAllFaulty == [RegBase EXCEPT !.email = EmailBad, !.mobile = MobileBad,
                                !.date_of_birth = DateBad, !.first_name = NameLong,
                                !.last_name = NameLong, !.address = AddrLong]

C12_RegistersOnce ==
    /\ \A w \in Registry.accounts :
          Cardinality({id \in DOMAIN Members : Members[id].created_by = w})
              = IF has_member_profile(w) THEN 1 ELSE 0
    /\ \A w \in Registry.accounts :
          has_member_profile(w) =>
              \A a \in RegistryFaulty.register \cup {RegAllFaulty} :
                  LET out == register_member(Storage, Signed(w), a) IN
                  /\ out.res = "MemberAlreadyExists"
                  /\ Discarded(out)

\* a member in a later block than its registration, whose account is
\* refused a registration with an email nobody uses and one with every
\* argument invalid
C12_Witness ==
    \E w \in Registry.accounts :
        /\ has_member_profile(w)
        /\ MemberOf(w).created_at < block_number
        /\ Email2 \notin DOMAIN MemberByEmail
        /\ register_member(Storage, Signed(w), [RegBase EXCEPT !.email = Email2]).res
              = "MemberAlreadyExists"
        /\ register_member(Storage, Signed(w), RegAllFaulty).res = "MemberAlreadyExists"

(***************************************************************************)
(* C13: register_member signed by an account without a profile, with       *)
(* valid arguments and an email that is in the email index, returns        *)
(* EmailAlreadyExists; the body has written nothing, no member is created  *)
(* for the caller, and the holder's record and index entries stay.         *)
(***************************************************************************)
C13_EmailTaken ==
    \A w \in Registry.accounts, e \in DOMAIN MemberByEmail :
        ~has_member_profile(w) =>
            LET out == register_member(Storage, Signed(w), [RegBase EXCEPT !.email = e])
                holder == MemberByEmail[e]
            IN  /\ out.res = "EmailAlreadyExists"
                /\ out.st = Storage
                /\ ~contains_key(Kept(out).st.AccountToMember, w)
                /\ Kept(out).st.Members = Members
                /\ Kept(out).st.MemberByEmail[e] = holder
                /\ Kept(out).st.AccountToMember[Members[holder].created_by] = holder
                /\ Discarded(out)

\* one member, holding the third email after an update, and an account
\* without a profile that asks for that email
C13_Witness ==
    \E w \in Registry.accounts :
        /\ ~has_member_profile(w)
        /\ Email3 \in DOMAIN MemberByEmail
        /\ register_member(Storage, Signed(w), [RegBase EXCEPT !.email = Email3]).res
              = "EmailAlreadyExists"

(***************************************************************************)
(* C14: a successful register_member stores, under the new member_id, a    *)
(* Member with the given fields, kyc_status = Unapproved, no photo_hash    *)
(* and no kyc_hash, created_at = updated_at = the current chain time and   *)
(* created_by = the caller; adds the account entry, the email entry and    *)
(* the order entry at the MemberCount before the call, all for that        *)
(* member_id; and deposits one MemberRegistered with member_id, account    *)
(* and email.                                                              *)
(***************************************************************************)
\* a registration that differs from RegBase in every field
RegOther == [member_type |-> "Professional", first_name |-> Name2, last_name |-> Name1,
             date_of_birth |-> Date2, email |-> Email3, address |-> Addr2,
             mobile |-> Mobile2]

C14_RegistrationEffect ==
    \A w \in Registry.accounts, a \in Registry.register \cup {RegOther} :
        LET out == register_member(Storage, Signed(w), a)
            id == generate_member_uuid(w, block_number)
            st == Kept(out).st
        IN  out.res = "Ok" =>
               /\ id \notin DOMAIN Members
               /\ st.Members = Insert(Members, id,
                     [member_id |-> id, member_type |-> a.member_type,
                      first_name |-> a.first_name, last_name |-> a.last_name,
                      date_of_birth |-> a.date_of_birth, email |-> a.email,
                      address |-> a.address, mobile |-> a.mobile,
                      kyc_status |-> "Unapproved", photo_hash |-> None,
                      kyc_hash |-> None, created_at |-> block_number,
                      updated_at |-> block_number, created_by |-> w])
               /\ st.AccountToMember = Insert(AccountToMember, w, id)
               /\ st.MemberByEmail = Insert(MemberByEmail, a.email, id)
               /\ st.MemberByIndex = Insert(MemberByIndex, MemberCount, id)
               /\ Kept(out).ev = <<[event |-> "MemberRegistered", member_id |-> id,
                                    account |-> w, email |-> a.email]>>

\* one member registered in an earlier block, and a second account whose
\* registration with other values in every field is accepted and gets the
\* order entry 1
C14_Witness ==
    \E w \in Registry.accounts :
        LET out == register_member(Storage, Signed(w), RegOther) IN
        /\ Cardinality(DOMAIN Members) = 1
        /\ MemberCount = 1
        /\ \A id \in DOMAIN Members : Members[id].created_at < block_number
        /\ out.res = "Ok"
        /\ Kept(out).st.MemberByIndex[1] = generate_member_uuid(w, block_number)
        /\ Cardinality(DOMAIN Kept(out).st.Members) = 2

C16_EmailMoves ==
    \A w \in Registry.accounts, a \in Registry.update :
        (has_member_profile(w) /\ a.email # None) =>
            LET id == AccountToMember[w]
                e1 == Members[id].email
                e2 == a.email[1]
                out == update_member(Storage, Signed(w), a)
                st == Kept(out).st
            IN  (e1 # e2 /\ out.res = "Ok") =>
                   /\ e1 \notin DOMAIN st.MemberByEmail
                   /\ e2 \in DOMAIN st.MemberByEmail
                   /\ st.MemberByEmail[e2] = id
                   /\ st.AccountToMember[w] = id
                   /\ st.Members[id].email = e2
                   /\ DOMAIN st.MemberByEmail = (DOMAIN MemberByEmail \ {e1}) \cup {e2}

\* two members; the one that already moved to the third email moves back
\* to the email it registered with
C16_Witness ==
    /\ Cardinality(DOMAIN Members) = 2
    /\ \E w \in Registry.accounts, e \in {Email1, Email2} :
          LET out == update_member(Storage, Signed(w), [UpdNone EXCEPT !.email = Some(e)])
          IN  /\ has_member_profile(w)
              /\ MemberOf(w).email = Email3
              /\ out.res = "Ok"
              /\ Email3 \notin DOMAIN Kept(out).st.MemberByEmail
              /\ Kept(out).st.MemberByEmail[e] = AccountToMember[w]

(***************************************************************************)
(* C17: a successful submit_kyc writes the caller's member with kyc_hash = *)
(* the argument, photo_hash = the argument when one is supplied and the    *)
(* stored photo_hash when none is, and updated_at = the current chain      *)
(* time; kyc_status, every other field, the other maps and the counter     *)
(* stay; and it deposits one KycSubmitted.                                 *)
(***************************************************************************)
\* documents other than the ones the members submit
KycDoc2 == "QmKyc2"
PhotoDoc2 == "QmPhoto2"

C17_SubmitEffect ==
    \A o \in Origins(Profile), kh \in {KycDoc, KycDoc2},
       ph \in {None, Some(PhotoDoc), Some(PhotoDoc2)} :
        LET out == submit_kyc(Storage, o, kh, ph) IN
        out.res = "Ok" =>
            LET id == AccountToMember[o[2]] IN
            /\ Kept(out).st =
                  [Storage EXCEPT !.Members =
                      Insert(Members, id,
                             [Members[id] EXCEPT
                                 !.kyc_hash = Some(kh),
                                 !.photo_hash = IF ph = None THEN @ ELSE ph,
                                 !.updated_at = block_number])]
            /\ Kept(out).ev = <<[event |-> "KycSubmitted", member_id |-> id,
                                 submitted_by |-> o[2], kyc_hash |-> kh]>>

\* an Approved member with both documents, last written in an earlier
\* block, that submits another document without a photo: the photo and the
\* status stay, the document and updated_at change
C17_Witness ==
    \E w \in Profile.accounts :
        LET out == submit_kyc(Storage, Signed(w), KycDoc2, None)
            after == Kept(out).st.Members[AccountToMember[w]]
        IN  /\ has_member_profile(w)
            /\ MemberOf(w).kyc_status = "Approved"
            /\ MemberOf(w).photo_hash = Some(PhotoDoc)
            /\ MemberOf(w).kyc_hash = Some(KycDoc)
            /\ MemberOf(w).updated_at < block_number
            /\ out.res = "Ok"
            /\ after.photo_hash = Some(PhotoDoc)
            /\ after.kyc_hash = Some(KycDoc2)
            /\ after.kyc_status = "Approved"
            /\ after.updated_at = block_number

(***************************************************************************)
(* C18: when submit_kyc succeeds and the same owner calls it again with    *)
(* the same kyc_hash and photo_hash, the second call succeeds and leaves   *)
(* kyc_hash, photo_hash and kyc_status as the first call left them.        *)
(***************************************************************************)
\* the document fields and the status of a member
Documents(m) == <<m.kyc_hash, m.photo_hash, m.kyc_status>>

C18_SubmitTwice ==
    \A w \in Profile.accounts, kh \in {KycDoc, KycDoc2},
       ph \in {None, Some(PhotoDoc), Some(PhotoDoc2)} :
        LET first == submit_kyc(Storage, Signed(w), kh, ph) IN
        first.res = "Ok" =>
            LET id == AccountToMember[w]
                second == submit_kyc(Kept(first).st, Signed(w), kh, ph)
            IN  /\ second.res = "Ok"
                /\ Documents(second.st.Members[id]) = Documents(Kept(first).st.Members[id])

\* an Approved member without documents: the first submission stores the
\* document and the photo, the second changes none of them nor the status
C18_Witness ==
    \E w \in Profile.accounts :
        LET first == submit_kyc(Storage, Signed(w), KycDoc, Some(PhotoDoc))
            second == submit_kyc(Kept(first).st, Signed(w), KycDoc, Some(PhotoDoc))
        IN  /\ has_member_profile(w)
            /\ Documents(MemberOf(w)) = <<None, None, "Approved">>
            /\ first.res = "Ok"
            /\ Documents(Kept(first).st.Members[AccountToMember[w]])
                  = <<Some(KycDoc), Some(PhotoDoc), "Approved">>
            /\ second.res = "Ok"
            /\ Documents(second.st.Members[AccountToMember[w]])
                  = <<Some(KycDoc), Some(PhotoDoc), "Approved">>

(***************************************************************************)
(* C19: a successful update_member leaves photo_hash and kyc_hash of every *)
(* stored member as they were, also when it resets kyc_status to           *)
(* Unapproved.                                                             *)
(***************************************************************************)
C19_EditKeepsDocuments ==
    \A o \in Origins(Profile), a \in Profile.update :
        LET out == update_member(Storage, o, a) IN
        out.res = "Ok" =>
            /\ DOMAIN Kept(out).st.Members = DOMAIN Members
            /\ \A id \in DOMAIN Members :
                  /\ Kept(out).st.Members[id].photo_hash = Members[id].photo_hash
                  /\ Kept(out).st.Members[id].kyc_hash = Members[id].kyc_hash

\* an Approved member with both documents: an edit of three fields sends it
\* back to Unapproved and keeps both documents
C19_Witness ==
    \E w \in Profile.accounts, a \in Profile.update :
        LET out == update_member(Storage, Signed(w), a)
            after == Kept(out).st.Members[AccountToMember[w]]
        IN  /\ has_member_profile(w)
            /\ Documents(MemberOf(w)) = <<Some(KycDoc), Some(PhotoDoc), "Approved">>
            /\ Cardinality({f \in ProfileFields : a[f] # None}) = 3
            /\ Differs(a, MemberOf(w))
            /\ out.res = "Ok"
            /\ Documents(after) = <<Some(KycDoc), Some(PhotoDoc), "Unapproved">>

(***************************************************************************)
(* C20: in every step, a member that is stored stays stored under the same *)
(* key with the same member_id, created_by and created_at, and every       *)
(* member stored after the step has its key as its member_id.              *)
(***************************************************************************)
Identity(m) == <<m.member_id, m.created_by, m.created_at>>

C20_IdentityIsFixed ==
    [][/\ \A id \in DOMAIN Members :
             /\ id \in DOMAIN Members'
             /\ Identity(Members'[id]) = Identity(Members[id])
       /\ \A id \in DOMAIN Members' : Members'[id].member_id = id]_vars

\* two members, both written again after the block of their registration:
\* one has changed its email, the other has submitted its document and has
\* been approved
C20_Witness ==
    /\ Cardinality(DOMAIN Members) = 2
    /\ \A id \in DOMAIN Members :
          /\ Members[id].member_id = id
          /\ Members[id].created_at < Members[id].updated_at
    /\ \E id \in DOMAIN Members : Members[id].email = Email3
    /\ \E id \in DOMAIN Members :
          /\ Members[id].kyc_hash # None
          /\ Members[id].kyc_status = "Approved"

(***************************************************************************)
(* C21: in every step, every member_id in Members stays in Members, every  *)
(* account in AccountToMember stays in AccountToMember, and MemberCount    *)
(* does not decrease.                                                      *)
(***************************************************************************)
C21_NothingIsDeleted ==
    [][/\ DOMAIN Members \subseteq DOMAIN Members'
       /\ DOMAIN AccountToMember \subseteq DOMAIN AccountToMember'
       /\ MemberCount' >= MemberCount]_vars

\* two members counted, one Rejected and one that has left the email it
\* registered with, both written after the block of their registration
C21_Witness ==
    /\ Cardinality(DOMAIN Members) = 2
    /\ Cardinality(DOMAIN AccountToMember) = 2
    /\ MemberCount = 2
    /\ \E id \in DOMAIN Members :
          Members[id].kyc_status = "Rejected" /\ Members[id].created_at < block_number
    /\ \E id \in DOMAIN Members : Members[id].email = Email3

(***************************************************************************)
(* C22: get_member signed by an account with a profile returns Ok, leaves  *)
(* the storage as it is and deposits one MemberDataRetrieved that carries  *)
(* the member_id, the caller and every field of the caller's stored        *)
(* member (kyc_status, both hashes, created_at and updated_at among        *)
(* them); signed by an account without a profile it returns                *)
(* MemberNotFound and nothing is deposited.                                *)
(***************************************************************************)
C22_GetMemberReports ==
    \A w \in Registry.accounts :
        LET out == get_member(Storage, Signed(w)) IN
        IF has_member_profile(w)
        THEN LET m == MemberOf(w) IN
             /\ out.res = "Ok"
             /\ Kept(out).st = Storage
             /\ Kept(out).ev =
                   <<[event |-> "MemberDataRetrieved", member_id |-> AccountToMember[w],
                      accessed_by |-> w, member_type |-> m.member_type,
                      first_name |-> m.first_name, last_name |-> m.last_name,
                      date_of_birth |-> m.date_of_birth, email |-> m.email,
                      address |-> m.address, mobile |-> m.mobile,
                      photo_hash |-> m.photo_hash, kyc_status |-> m.kyc_status,
                      kyc_hash |-> m.kyc_hash, created_at |-> m.created_at,
                      updated_at |-> m.updated_at]>>
        ELSE /\ out.res = "MemberNotFound"
             /\ Discarded(out)

\* an Approved member with both documents, written after the block of its
\* registration, reads its record; an account without a profile is refused
C22_Witness ==
    \E w \in Registry.accounts, v \in Registry.accounts :
        LET out == get_member(Storage, Signed(w)) IN
        /\ has_member_profile(w)
        /\ Documents(MemberOf(w)) = <<Some(KycDoc), Some(PhotoDoc), "Approved">>
        /\ MemberOf(w).created_at < MemberOf(w).updated_at
        /\ out.res = "Ok"
        /\ Kept(out).ev[1].updated_at = MemberOf(w).updated_at
        /\ Kept(out).ev[1].kyc_status = "Approved"
        /\ ~has_member_profile(v)
        /\ get_member(Storage, Signed(v)).res = "MemberNotFound"

(***************************************************************************)
(* C23: in every reachable state, an account that AccountToMember maps to  *)
(* a member_id has that member stored with the account as created_by; so   *)
(* get_member, update_member and submit_kyc never return NotMemberOwner.   *)
(***************************************************************************)
C23_NotMemberOwnerUnreachable ==
    /\ \A w \in DOMAIN AccountToMember :
          /\ contains_key(Members, AccountToMember[w])
          /\ Members[AccountToMember[w]].created_by = w
    /\ \A o \in Origins(Registry) :
          /\ get_member(Storage, o).res # "NotMemberOwner"
          /\ \A a \in Registry.update :
                update_member(Storage, o, a).res # "NotMemberOwner"
          /\ \A ph \in Registry.photo :
                submit_kyc(Storage, o, KycDoc, ph).res # "NotMemberOwner"

\* two members registered in the same block, each of which passes the
\* ownership check of the three operations
C23_Witness ==
    /\ Cardinality(DOMAIN AccountToMember) = 2
    /\ \A w \in DOMAIN AccountToMember :
          /\ Members[AccountToMember[w]].created_at = 1
          /\ get_member(Storage, Signed(w)).res = "Ok"
          /\ update_member(Storage, Signed(w), UpdNone).res = "Ok"
          /\ submit_kyc(Storage, Signed(w), KycDoc, None).res = "Ok"


(***************************************************************************)
(* C24: date-of-birth validation accepts a byte string exactly when it is  *)
(* 10 characters, '-' at positions 4 and 7 (counted from 0), digits        *)
(* elsewhere, year in 1900..2100, month in 1..12, day in 1..31; every      *)
(* other byte string is rejected with InvalidDateFormat and with no other  *)
(* outcome.                                                                *)
(***************************************************************************)
\* the number written by the characters from..to of a well-shaped date
DateField(date, from, to) ==
    LET Num[i \in (from - 1)..to] ==
            IF i = from - 1 THEN 0 ELSE Num[i - 1] * 10 + DigitVal(date[i])
    IN  Num[to]

DateWellFormed(date) ==
    /\ IsUtf8(date)
    /\ Len(date) = 10
    /\ date[5] = "-" /\ date[8] = "-"
    /\ \A i \in (1..10) \ {5, 8} : date[i] \in Digits
    /\ DateField(date, 1, 4) \in 1900..2100
    /\ DateField(date, 6, 7) \in 1..12
    /\ DateField(date, 9, 10) \in 1..31

C24_DateAcceptance ==
    validation.helper = "validate_date" =>
        validation.res = IF DateWellFormed(validation.arg) THEN "Ok"
                         ELSE "InvalidDateFormat"

\* the verdict on the well-formed dates and on the strings of 10 characters
\* or of another byte length is the stated one
C24_DateAcceptanceOfCharacters ==
    (validation.helper = "validate_date"
        /\ (Len(validation.arg) = 10 \/ ByteLen(validation.arg) # 10
            \/ ~IsUtf8(validation.arg))) =>
        validation.res = IF DateWellFormed(validation.arg) THEN "Ok"
                         ELSE "InvalidDateFormat"


(***************************************************************************)
(* C25: email validation accepts an input exactly when it has exactly one  *)
(* '@', a local part of 1 to 64 characters from letters, digits and        *)
(* . _ - + with no leading, trailing or consecutive dot, and a domain of   *)
(* 1 to 253 characters from letters, digits, . and - that contains a dot   *)
(* and neither starts nor ends with a dot or hyphen; every other input     *)
(* fails with InvalidEmailFormat.                                          *)
(***************************************************************************)
LocalWellFormed(local) ==
    /\ Len(local) \in 1..64
    /\ \A i \in 1..Len(local) : local[i] \in Letters \cup Digits \cup {".", "_", "-", "+"}
    /\ local[1] # "."
    /\ local[Len(local)] # "."
    /\ \A i \in 1..(Len(local) - 1) : ~(local[i] = "." /\ local[i + 1] = ".")

DomainWellFormed(domain) ==
    /\ Len(domain) \in 1..253
    /\ \A i \in 1..Len(domain) : domain[i] \in Letters \cup Digits \cup {".", "-"}
    /\ \E i \in 1..Len(domain) : domain[i] = "."
    /\ domain[1] \notin {".", "-"}
    /\ domain[Len(domain)] \notin {".", "-"}

EmailWellFormed(email) ==
    /\ IsUtf8(email)
    /\ \E at \in 1..Len(email) :
          /\ email[at] = "@"
          /\ \A i \in (1..Len(email)) \ {at} : email[i] # "@"
          /\ LocalWellFormed(SubSeq(email, 1, at - 1))
          /\ DomainWellFormed(SubSeq(email, at + 1, Len(email)))

C25_EmailAcceptance ==
    validation.helper = "validate_email" =>
        validation.res = IF EmailWellFormed(validation.arg) THEN "Ok"
                         ELSE "InvalidEmailFormat"

\* an email with a local part of 64 characters and a domain of 253 has been
\* accepted
C25_Witness ==
    /\ validation.helper = "validate_email"
    /\ validation.res = "Ok"
    /\ Len(validation.arg) = 64 + 1 + 253

(***************************************************************************)
(* C26: mobile validation accepts an input exactly when, after removing at *)
(* most one leading '+', it consists of 7 to 15 ASCII digits and nothing   *)
(* else; every other input fails with InvalidMobileFormat.                 *)
(***************************************************************************)
MobileWellFormed(mobile) ==
    /\ IsUtf8(mobile)
    /\ \E plus \in {0, 1} :
          /\ plus = 1 => (mobile # <<>> /\ mobile[1] = "+")
          /\ Len(mobile) - plus \in 7..15
          /\ \A i \in (plus + 1)..Len(mobile) : mobile[i] \in Digits

C26_MobileAcceptance ==
    validation.helper = "validate_mobile" =>
        validation.res = IF MobileWellFormed(validation.arg) THEN "Ok"
                         ELSE "InvalidMobileFormat"

\* a mobile of '+' and 15 digits has been accepted
C26_Witness ==
    /\ validation.helper = "validate_mobile"
    /\ validation.res = "Ok"
    /\ Len(validation.arg) = 16
    /\ validation.arg[1] = "+"


(***************************************************************************)
(* C27: in every reachable state every stored member's email, mobile and   *)
(* date_of_birth pass their validation and every text field is within its  *)
(* configured maximum length: no registration and no edit, whatever its    *)
(* arguments, persists a value that fails validation or exceeds a bound.   *)
(***************************************************************************)
C27_StoredFieldsAreValid ==
    \A id \in DOMAIN Members :
        LET m == Members[id]
        IN  /\ validate_email(m.email) = "Ok"
            /\ validate_mobile(m.mobile) = "Ok"
            /\ validate_date(m.date_of_birth) = "Ok"
            /\ FitsBound(m.first_name, MaxFirstNameLength)
            /\ FitsBound(m.last_name, MaxLastNameLength)
            /\ FitsBound(m.date_of_birth, MaxDateLength)
            /\ FitsBound(m.email, MaxEmailLength)
            /\ FitsBound(m.address, MaxAddressLength)
            /\ FitsBound(m.mobile, MaxMobileLength)

\* a member whose mobile, date of birth and address were edited is stored
C27_Witness ==
    \E id \in DOMAIN Members :
        /\ Members[id].mobile = Mobile2
        /\ Members[id].date_of_birth = Date2
        /\ Members[id].address = Addr2


(***************************************************************************)
(* C28: the block number never decreases; every stored member has          *)
(* updated_at >= created_at in every state, and no step lowers a stored    *)
(* member's updated_at.                                                    *)
(***************************************************************************)
C28_TimestampsAreMonotonic ==
    [][/\ block_number' >= block_number
       /\ \A id \in DOMAIN Members : Members[id].updated_at >= Members[id].created_at
       /\ \A id \in DOMAIN Members' :
             /\ Members'[id].updated_at >= Members'[id].created_at
             /\ id \in DOMAIN Members =>
                   Members'[id].updated_at >= Members[id].updated_at]_vars

\* a member registered at one block has been written at a later block
C28_Witness ==
    \E id \in DOMAIN Members : Members[id].updated_at > Members[id].created_at


(***************************************************************************)
(* C29: a successful register_member, get_member, submit_kyc,              *)
(* update_kyc_status or admin_update_kyc_status appends exactly one event; *)
(* a successful update_member appends exactly one event when a field of    *)
(* the profile changed and none otherwise; a failed call appends none.     *)
(***************************************************************************)
\* the number of events the call appends: one if it succeeds, none if not
OneEventIfOk(out) == Len(Kept(out).ev) = IF out.res = "Ok" THEN 1 ELSE 0

\* the call changed a field of the profile of a member stored before it
FieldChanged(out) ==
    \E id \in DOMAIN Members :
        \E f \in ProfileFields : Kept(out).st.Members[id][f] # Members[id][f]

C29_EventsPerCall ==
    LET U == Profile IN
    \A origin \in Origins(U) :
        /\ \A a \in U.register : OneEventIfOk(register_member(Storage, origin, a))
        /\ OneEventIfOk(get_member(Storage, origin))
        /\ \A ph \in U.photo : OneEventIfOk(submit_kyc(Storage, origin, KycDoc, ph))
        /\ \A member_id \in MemberIds(U), new_status \in KycStatus :
              /\ OneEventIfOk(update_kyc_status(Storage, origin, member_id, new_status))
              /\ OneEventIfOk(admin_update_kyc_status(Storage, origin, member_id,
                                                      new_status))
        /\ \A a \in U.update :
              LET out == update_member(Storage, origin, a) IN
              Len(Kept(out).ev) = IF out.res = "Ok" /\ FieldChanged(out) THEN 1 ELSE 0

\* from one state an edit that changes a field, an edit that changes none
\* and an edit that fails are all possible, as are a successful and a
\* failed call of the other operations
C29_Witness ==
    LET U == Profile IN
    /\ \E a \in U.update : LET out == update_member(Storage, Signed("alice"), a) IN
          out.res = "Ok" /\ FieldChanged(out) /\ Len(Kept(out).ev) = 1
    /\ \E a \in U.update \ {UpdNone} :
          LET out == update_member(Storage, Signed("alice"), a) IN
          out.res = "Ok" /\ ~FieldChanged(out) /\ Kept(out).ev = <<>>
    /\ \E a \in U.update : update_member(Storage, Signed("alice"), a).res
                              \notin {"Ok", "BadOrigin", "MemberNotFound"}
    /\ get_member(Storage, Signed("alice")).res = "Ok"
    /\ get_member(Storage, Root).res # "Ok"
    /\ \E a \in U.register : register_member(Storage, Signed("alice"), a).res # "Ok"
    /\ \E id \in MemberIds(U) :
          /\ Len(Kept(admin_update_kyc_status(Storage, Root, id, "Approved")).ev) = 1
          /\ Len(Kept(update_kyc_status(Storage, Signed("alice"), id, "Rejected")).ev) = 1
          /\ admin_update_kyc_status(Storage, Signed("alice"), id, "Approved").res # "Ok"
    /\ Len(Kept(submit_kyc(Storage, Signed("alice"), KycDoc, None)).ev) = 1


(***************************************************************************)
(* C30: the MemberUpdated event of a successful update_member that changes *)
(* the profile carries previous_email = the email before the call exactly  *)
(* when the email changed and no previous_email otherwise, and its         *)
(* new_email is the member's email after the call.                         *)
(***************************************************************************)
C30_UpdatedEventEmails ==
    \A a \in Profile.update, w \in Profile.accounts :
        LET out == update_member(Storage, Signed(w), a) IN
        (out.res = "Ok" /\ FieldChanged(out)) =>
            LET before == MemberOf(w)
                after == Kept(out).st.Members[AccountToMember[w]]
                ev == Kept(out).ev[1]
            IN  /\ ev.event = "MemberUpdated"
                /\ ev.previous_email = IF after.email # before.email
                                       THEN Some(before.email) ELSE None
                /\ ev.new_email = after.email

\* from one state an edit of the address alone reports no previous email
\* and an edit of the email reports the one it replaces
C30_Witness ==
    LET address == update_member(Storage, Signed("alice"),
                                 [UpdNone EXCEPT !.address = Some(Addr2)])
        email == update_member(Storage, Signed("alice"),
                               [UpdNone EXCEPT !.email = Some(Email2)])
    IN  /\ address.res = "Ok"
        /\ Kept(address).ev # <<>>
        /\ Kept(address).ev[1].previous_email = None
        /\ Kept(address).ev[1].new_email = Email1
        /\ email.res = "Ok"
        /\ Kept(email).ev # <<>>
        /\ Kept(email).ev[1].previous_email = Some(Email1)
        /\ Kept(email).ev[1].new_email = Email2


DateShort == <<Char3, Char3, Char3, "1">>

\* registrations in which any number of the conditions fail together
RegOrder(dates) ==
    {[RegBase EXCEPT !.email = e, !.mobile = m, !.date_of_birth = d,
                     !.first_name = n, !.address = s] :
        e \in {Email1, Email2, EmailBad, EmailLong}, m \in {Mobile1, MobileBad},
        d \in dates, n \in {Name1, NameLong}, s \in {Addr1, AddrLong}}

OverBound(a) ==
    \/ ByteLen(a.first_name) > MaxFirstNameLength
    \/ ByteLen(a.last_name) > MaxLastNameLength
    \/ ByteLen(a.date_of_birth) > MaxDateLength
    \/ ByteLen(a.email) > MaxEmailLength
    \/ ByteLen(a.address) > MaxAddressLength
    \/ ByteLen(a.mobile) > MaxMobileLength

\* the first of the conditions, in the stated order, that fails
FirstError(w, a) ==
    IF has_member_profile(w) THEN "MemberAlreadyExists"
    ELSE IF ~EmailWellFormed(a.email) THEN "InvalidEmailFormat"
    ELSE IF ~MobileWellFormed(a.mobile) THEN "InvalidMobileFormat"
    ELSE IF ~DateWellFormed(a.date_of_birth) THEN "InvalidDateFormat"
    ELSE IF OverBound(a) THEN "InvalidMemberData"
    ELSE IF a.email \in DOMAIN MemberByEmail THEN "EmailAlreadyExists"
    ELSE "Ok"

C32_ErrorOrder ==
    \A a \in RegOrder({Date1, DateBad, DateShort}), w \in Registry.accounts :
        register_member(Storage, Signed(w), a).res = FirstError(w, a)

\* with dates of 10 characters the error is the first in the stated order
C32_ErrorOrderOfCharacterDates ==
    \A a \in RegOrder({Date1, DateBad}), w \in Registry.accounts :
        register_member(Storage, Signed(w), a).res = FirstError(w, a)


(***************************************************************************)
(* C33: an email released by an update can be used again.  After a member  *)
(* has changed its email from e1 to e2, register_member by an account      *)
(* without a profile succeeds with e1, and e1 then maps to the new member; *)
(* with e2 it returns EmailAlreadyExists.                                  *)
(***************************************************************************)
C33_ReleasedEmailIsReusable ==
    \A w \in Registry.accounts, v \in Registry.accounts, a \in Registry.update :
        (has_member_profile(w) /\ ~has_member_profile(v) /\ a.email # None) =>
            LET e1 == MemberOf(w).email
                e2 == a.email[1]
                moved == update_member(Storage, Signed(w), a)
                S1 == Kept(moved).st
                again == register_member(S1, Signed(v), [RegBase EXCEPT !.email = e1])
                S2 == with_storage_layer(S1, again).st
                taken == register_member(S1, Signed(v), [RegBase EXCEPT !.email = e2])
            IN  (moved.res = "Ok" /\ e1 # e2) =>
                   /\ again.res = "Ok"
                   /\ S2.MemberByEmail[e1] = S2.AccountToMember[v]
                   /\ S2.MemberByEmail[e1] # AccountToMember[w]
                   /\ S2.Members[S2.MemberByEmail[e1]].created_by = v
                   /\ S2.MemberByEmail[e2] = AccountToMember[w]
                   /\ taken.res = "EmailAlreadyExists"
                   /\ with_storage_layer(S1, taken).st = S1

\* a member that can move from the first email to the second, in a later
\* block than its registration, and an account without a profile
C33_Witness ==
    \E w \in Registry.accounts, v \in Registry.accounts :
        /\ has_member_profile(w)
        /\ ~has_member_profile(v)
        /\ MemberOf(w).email = Email1
        /\ MemberOf(w).created_at < block_number
        /\ LET moved == update_member(Storage, Signed(w),
                                      [UpdNone EXCEPT !.email = Some(Email2)])
           IN  /\ moved.res = "Ok"
               /\ register_member(Kept(moved).st, Signed(v), RegBase).res = "Ok"


(***************************************************************************)
(* C34: in every reachable state MemberCount is the number of stored       *)
(* members, MemberByIndex is defined exactly on 0 .. MemberCount-1, and it *)
(* maps these indices one-to-one onto the stored member_ids in the order   *)
(* of registration; also when registrations go on after the counter has    *)
(* reached its largest value.                                              *)
(***************************************************************************)
\* no index holds a member registered after the member of a later index
InRegistrationOrder ==
    \A i \in DOMAIN MemberByIndex, j \in DOMAIN MemberByIndex :
        i < j => Members[MemberByIndex[i]].created_at
                    <= Members[MemberByIndex[j]].created_at

\* the indices hold stored member_ids, each at most once
IndexIsOneToOne ==
    /\ \A i \in DOMAIN MemberByIndex : MemberByIndex[i] \in DOMAIN Members
    /\ \A i \in DOMAIN MemberByIndex, j \in DOMAIN MemberByIndex :
          MemberByIndex[i] = MemberByIndex[j] => i = j

\* every stored member_id is at an index
IndexIsOnto ==
    \A id \in DOMAIN Members : \E i \in DOMAIN MemberByIndex : MemberByIndex[i] = id

RegVaried ==
    Crowd.register
    \cup {[member_type |-> "Professional", first_name |-> Name2, last_name |-> Name2,
           date_of_birth |-> Date2, email |-> e, address |-> Addr2, mobile |-> Mobile2] :
             e \in {Email1, Email2, Email3, Email4}}

\* the member_id a registration by w leaves in storage S1
NewId(S1, out, w) == with_storage_layer(S1, out).st.AccountToMember[w]

C35_IdFromCallerAndTime ==
    LET Genesis == [Members |-> EmptyMap, AccountToMember |-> EmptyMap,
                    MemberByEmail |-> EmptyMap, MemberCount |-> 0,
                    MemberByIndex |-> EmptyMap]
    IN  \A w \in Crowd.accounts, a \in RegVaried :
            LET here == register_member(Storage, Signed(w), a) IN
            here.res = "Ok" =>
                /\ \A b \in RegVaried :
                      LET other == register_member(Storage, Signed(w), b)
                          fresh == register_member(Genesis, Signed(w), b)
                      IN  /\ other.res = "Ok" =>
                                NewId(Storage, other, w) = NewId(Storage, here, w)
                          /\ fresh.res = "Ok"
                          /\ NewId(Genesis, fresh, w) = NewId(Storage, here, w)
                /\ \A v \in Crowd.accounts \ {w}, b \in RegVaried :
                      LET S1 == Kept(here).st
                          next == register_member(S1, Signed(v), b)
                      IN  next.res = "Ok" =>
                             /\ NewId(S1, next, v) # NewId(Storage, here, w)
                             /\ NewId(S1, next, v) \notin DOMAIN S1.Members

\* two members are stored, and two accounts without a profile can register
\* with different arguments in the same block
C35_Witness ==
    /\ Cardinality(DOMAIN Members) = 2
    /\ \E w \in Crowd.accounts, v \in Crowd.accounts, a \in RegVaried, b \in RegVaried :
          LET here == register_member(Storage, Signed(w), a) IN
          /\ w # v
          /\ a.first_name # b.first_name
          /\ a.email # b.email
          /\ here.res = "Ok"
          /\ register_member(Storage, Signed(w), b).res = "Ok"
          /\ register_member(Kept(here).st, Signed(v), b).res = "Ok"

====
